---- MODULE Spec2Model ----
(***************************************************************************)
(* Verification model of the run-scoped layered pipeline                   *)
(* (KonstantinData/agentic-elt-data-warehouse).                            *)
(*                                                                         *)
(* Four programs of the repository are modelled, each under its own        *)
(* specification over the shared variables:                                *)
(*   Spec        src/pipeline/golden_path.py    run_pipeline               *)
(*   SpecRetry   src/pipeline/upstream_gold.py  with_retry, write_csv      *)
(*   SpecRunId   upstream_silver.main / upstream_gold.main run identity    *)
(*   SpecSilver  upstream_silver.main and silver_layer.run_silver          *)
(* Text is modelled as sequences of one-character strings so that          *)
(* formatting, pattern matching and trimming are computed, not assumed.    *)
(***************************************************************************)
EXTENDS Integers, Sequences, FiniteSets, TLC

VARIABLES
    \* ---- golden_path.run_pipeline ----
    o_pc,        \* "idle" | "running" | "returned" | "raised"
    o_arg,       \* the run_id argument of the call (None when absent)
    run_id,      \* the local run_id of run_pipeline
    seed,        \* the seed argument
    rng,         \* state of the global random module: "unseeded" or the seed
    next_step,   \* index in STEPS of the next step to call
    status,      \* the status dict: step name -> outcome
    calls,       \* the steps called so far, in call order
    meta_files,  \* files of artifacts/runs/<run_id>/_meta: name -> content
    o_error,     \* the exception that left run_pipeline (None when none)
    \* ---- upstream_gold.with_retry and the writes it wraps ----
    r_pc,        \* "idle" | "running" | "returned" | "raised"
    r_action,    \* the wrapped action: "call" (any callable) or "to_csv" (write_csv)
    r_attempts,  \* the attempts argument
    r_backoff,   \* the backoff_s argument, in milliseconds
    r_attempt,   \* the loop variable attempt
    r_outcomes,  \* outcome of each invocation of the action so far, in order
    r_sleeps,    \* the time.sleep calls so far, in milliseconds, in order
    r_error,     \* the exception that left with_retry (None when none)
    r_df,        \* the frame write_csv is writing (number of data rows)
    dest,        \* the destination file of write_csv: Absent or its lines
    \* ---- the artifact tree ----
    bronze_root, \* BRONZE_ROOT: run directory name -> its data directory (name -> file)
    silver_root, \* SILVER_ROOT: the names of the run directories that exist
    gold_root,   \* GOLD_ROOT: the names of the run directories that exist
    \* ---- upstream_silver.main ----
    s_pc,        \* "idle" | "loop" | "returned" | "raised"
    s_bronze_run_id,
    s_run_id,    \* silver_run_id
    s_todo,      \* the file names the for-loop has still to visit, in order
    s_results,   \* results: the rec of every file visited, in order
    s_tables,    \* metadata["tables"]: file name -> rec
    s_out,       \* the Silver data directory: file name -> file
    s_meta,      \* metadata.yaml as written ("None" until then)
    s_error,     \* the exception that left main (None when none)
    \* ---- silver_layer.run_silver ----
    l_pc,        \* "idle" | "loop" | "returned" | "raised"
    l_run_id,    \* the run_id argument
    l_todo,      \* the paths bronze_data.glob("*.csv") has still to yield
    l_out,       \* the Silver data directory of the run: file name -> file
    l_metadata,  \* the metadata dict: file name -> column types
    l_meta,      \* silver_metadata.yaml as written ("None" until then)
    l_error,     \* the exception that left run_silver (None when none)
    \* ---- upstream_gold.main ----
    g_pc,        \* "idle" | "build" | "marts" | "finish" | "returned" | "raised"
    g_silver_run_id,
    g_start,     \* start_dt
    g_requested, \* requested_run_id (NoRunId: None)
    gold_run_id,
    run_id_source,
    g_suffix,    \* suffix, as recorded under "source" in the metadata
    g_notes,     \* notes
    g_error,     \* the exception that left main (None when none)
    g_tables,    \* the Silver tables loaded: file name -> frame (absent: None)
    g_mart,      \* the number of the mart block main has reached (1..8, then 9)
    g_outputs,   \* outputs
    g_errors,    \* errors
    gold_data,   \* the Gold data directory: mart name -> frame written
    g_meta,      \* the metadata.yaml files written, in order
    g_html,      \* the gold_report.html files written, in order
    \* ---- bronze_layer.run_bronze ----
    b_pc,        \* "idle" | "crm" | "erp" | "meta" | "report" | "returned" | "raised"
    b_run_id,    \* the run_id argument
    b_raw,       \* raw/source_crm and raw/source_erp: file name -> file
    b_crm_meta,  \* crm_meta
    b_erp_meta,  \* erp_meta
    b_files,     \* what the run has under bronze/_meta and bronze/reports
    b_calls,     \* the number of calls of run_bronze so far
    b_error,     \* the exception that left run_bronze (None when none)
    \* ---- runs that execute at the same time ----
    c_pc,        \* per run: "idle" | "writing" | "done"
    c_kind,      \* per run: "silver" (upstream_silver.main) | "pipeline" (run_pipeline)
    c_run_id,    \* per run: the run id it works under
    c_todo,      \* per run: the files it has still to write
    c_paths,     \* file path -> the runs that wrote it
    \* ---- dashboard/services/artifacts.py ----
    d_pc,        \* "setup" | "listed"
    d_runs,      \* artifacts/runs: whether it exists, and its entries
    d_silver,    \* artifacts/silver: whether it exists, and its entries
    d_result,    \* what list_available_runs returned
    \* ---- the mart builders of upstream_gold.py, applied on their own ----
    k_fn,        \* the builder applied last ("none" before the first)
    k_in,        \* its arguments
    k_out,       \* the frame it returned
    \* ---- upstream_gold.sha256_file ----
    h_pc,        \* "idle" | "reading" | "returned" | "raised"
    h_file,      \* the file: its chunks of chunk_size bytes, in order
    h_fed,       \* the chunks given to h.update so far, in order
    h_attempt,   \* the loop variable attempt of with_retry
    h_pos,       \* the number of chunks _read has read in this attempt
    h_digest,    \* the value returned (None until then)
    h_error      \* the exception that left sha256_file (None when none)

orchVars == <<o_pc, o_arg, run_id, seed, rng, next_step, status, calls, meta_files, o_error>>

retryVars ==
    <<r_pc, r_action, r_attempts, r_backoff, r_attempt, r_outcomes, r_sleeps, r_error, r_df, dest>>

treeVars == <<bronze_root, silver_root, gold_root>>

silverVars ==
    <<s_pc, s_bronze_run_id, s_run_id, s_todo, s_results, s_tables, s_out, s_meta, s_error>>

layerVars == <<l_pc, l_run_id, l_todo, l_out, l_metadata, l_meta, l_error>>

goldVars ==
    <<g_pc, g_silver_run_id, g_start, g_requested, gold_run_id, run_id_source, g_suffix,
      g_notes, g_error>>

buildVars == <<g_tables, g_mart, g_outputs, g_errors, gold_data, g_meta, g_html>>

bronzeVars == <<b_pc, b_run_id, b_raw, b_crm_meta, b_erp_meta, b_files, b_calls, b_error>>

hashVars == <<h_pc, h_file, h_fed, h_attempt, h_pos, h_digest, h_error>>

martVars == <<k_fn, k_in, k_out>>

dashVars == <<d_pc, d_runs, d_silver, d_result>>

concVars == <<c_pc, c_kind, c_run_id, c_todo, c_paths>>

vars ==
    <<orchVars, retryVars, treeVars, silverVars, layerVars, goldVars, buildVars, bronzeVars,
      concVars, dashVars, martVars, hashVars>>

\* Frame conditions: a program leaves the other programs' state alone
OrchOnly ==
    UNCHANGED <<retryVars, treeVars, silverVars, layerVars, goldVars, buildVars, bronzeVars, concVars, dashVars, martVars, hashVars>>

RetryOnly ==
    UNCHANGED <<orchVars, treeVars, silverVars, layerVars, goldVars, buildVars, bronzeVars, concVars, dashVars, martVars, hashVars>>

SilverOnly ==
    UNCHANGED <<orchVars, retryVars, layerVars, goldVars, buildVars, bronzeVars, concVars, dashVars, martVars, hashVars>>

LayerOnly ==
    UNCHANGED <<orchVars, retryVars, treeVars, silverVars, goldVars, buildVars, bronzeVars, concVars, dashVars, martVars, hashVars>>

GoldOnly ==
    UNCHANGED <<orchVars, retryVars, silverVars, layerVars, buildVars, bronzeVars, concVars, dashVars, martVars, hashVars>>

BuildOnly ==
    UNCHANGED <<orchVars, retryVars, treeVars, silverVars, layerVars, bronzeVars, concVars,
                dashVars, martVars, hashVars, g_silver_run_id, g_start, g_requested, gold_run_id, run_id_source, g_suffix>>

BronzeOnly ==
    UNCHANGED <<orchVars, retryVars, silverVars, layerVars, goldVars, buildVars, concVars,
                dashVars, martVars, hashVars, silver_root, gold_root>>

ConcOnly ==
    UNCHANGED <<orchVars, retryVars, silverVars, layerVars, goldVars, buildVars, bronzeVars,
                dashVars, martVars, hashVars, bronze_root, gold_root>>

DashOnly ==
    UNCHANGED <<orchVars, retryVars, treeVars, silverVars, layerVars, goldVars, buildVars,
                bronzeVars, concVars, martVars, hashVars>>

MartOnly ==
    UNCHANGED <<orchVars, retryVars, treeVars, silverVars, layerVars, goldVars, buildVars,
                bronzeVars, concVars, dashVars, hashVars>>

HashOnly ==
    UNCHANGED <<orchVars, retryVars, treeVars, silverVars, layerVars, goldVars, buildVars,
                bronzeVars, concVars, dashVars, martVars>>

None == "None"

\* An absent run id (Python None where a str is expected)
NoRunId == <<"None">>

\* Bounds of the suffix group of RUN_ID_RE: {6,32}
MinSuffixLen == 6

MaxSuffixLen == 32

(***************************************************************************)
(* Text helpers                                                            *)
(***************************************************************************)
DigitChars == <<"0", "1", "2", "3", "4", "5", "6", "7", "8", "9">>

Digit == {DigitChars[i] : i \in 1..10}

HexChar == Digit \cup {"a", "b", "c", "d", "e", "f", "A", "B", "C", "D", "E", "F"}

RECURSIVE Pow10(_)
Pow10(k) == IF k = 0 THEN 1 ELSE 10 * Pow10(k - 1)

\* "%0<w>d" % n, as strftime pads each field
Pad(n, w) == [i \in 1..w |-> DigitChars[((n \div Pow10(w - i)) % 10) + 1]]

\* The characters of the model's texts in code point order (str comparison)
CodePointOrder ==
    <<"\n", " ", "#", "-", ".",
      "0", "1", "2", "3", "4", "5", "6", "7", "8", "9",
      "A", "B", "C", "D", "E", "F", "L", "M", "N", "O", "S", "T", "U", "X", "Z",
      "_",
      "a", "b", "c", "d", "e", "f", "i", "k", "l", "m", "n", "o", "r", "u", "w", "x", "y">>

CodePoint(c) == CHOOSE i \in 1..Len(CodePointOrder) : CodePointOrder[i] = c

\* a < b for two str values, as sorted() compares them
StrLess(a, b) ==
    \E k \in 1..(Len(b)) :
        /\ \A i \in 1..(k - 1) : i <= Len(a) /\ a[i] = b[i]
        /\ \/ k = Len(a) + 1
           \/ k <= Len(a) /\ CodePoint(a[k]) < CodePoint(b[k])

\* sorted(S)[-1] of a non-empty set of str
StrMax(S) == CHOOSE m \in S : \A x \in S : x = m \/ StrLess(x, m)

Whitespace == {" ", "\n"}

\* str.strip()
Strip(t) ==
    LET keep == {i \in 1..Len(t) : t[i] \notin Whitespace} IN
        IF keep = {} THEN <<>>
        ELSE LET lo == CHOOSE i \in keep : \A j \in keep : i <= j
                 hi == CHOOSE i \in keep : \A j \in keep : j <= i
             IN  SubSeq(t, lo, hi)

LowerLetters == <<"a", "b", "c", "d", "e", "f", "l", "m", "n", "o", "r", "u", "x", "y">>

UpperLetters == <<"A", "B", "C", "D", "E", "F", "L", "M", "N", "O", "R", "U", "X", "Y">>

UpperChar(c) ==
    IF \E i \in 1..Len(LowerLetters) : LowerLetters[i] = c
        THEN UpperLetters[CHOOSE i \in 1..Len(LowerLetters) : LowerLetters[i] = c]
        ELSE c

\* str.upper()
Upper(t) == [i \in 1..Len(t) |-> UpperChar(t[i])]

\* The instants the clock may show when a run id is made.
Nows ==
    { [Y |-> 2024, Mo |-> 1, D |-> 5, H |-> 9, Mi |-> 3, S |-> 7],
      [Y |-> 2025, Mo |-> 12, D |-> 31, H |-> 23, Mi |-> 59, S |-> 58] }

\* datetime.strftime("%Y%m%d_%H%M%S")
StrftimeLayer(dt) ==
    Pad(dt.Y, 4) \o Pad(dt.Mo, 2) \o Pad(dt.D, 2) \o <<"_">>
        \o Pad(dt.H, 2) \o Pad(dt.Mi, 2) \o Pad(dt.S, 2)

\* datetime.strftime("%Y%m%dT%H%M%SZ")
StrftimeOrch(dt) ==
    Pad(dt.Y, 4) \o Pad(dt.Mo, 2) \o Pad(dt.D, 2) \o <<"T">>
        \o Pad(dt.H, 2) \o Pad(dt.Mi, 2) \o Pad(dt.S, 2) \o <<"Z">>

\* RUN_ID_RE = ^(?P<ts>\d{8}_\d{6})_#(?P<suffix>[0-9a-fA-F]{6,32})$
\* ($ also matches just before one trailing newline.)
RunIdBody(s) ==
    IF Len(s) > 0 /\ s[Len(s)] = "\n" THEN SubSeq(s, 1, Len(s) - 1) ELSE s

RunIdReMatch(s) ==
    LET b == RunIdBody(s) IN
        /\ Len(b) >= 17 + MinSuffixLen
        /\ Len(b) <= 17 + MaxSuffixLen
        /\ \A i \in 1..8 : b[i] \in Digit
        /\ b[9] = "_"
        /\ \A i \in 10..15 : b[i] \in Digit
        /\ b[16] = "_"
        /\ b[17] = "#"
        /\ \A i \in 18..Len(b) : b[i] \in HexChar

\* m.group("suffix") of a matching id
RunIdSuffix(s) == SubSeq(RunIdBody(s), 18, Len(RunIdBody(s)))

\* m.group("ts") of a matching id
RunIdTs(s) == SubSeq(s, 1, 15)

(***************************************************************************)
(* golden_path.py: the orchestrator                                        *)
(***************************************************************************)
\* The order of the seven try-blocks of run_pipeline
STEPS ==
    <<"bronze", "silver", "gold", "eda", "feature_engineering", "segmentation", "final_report">>

\* Number of random letters of a generated suffix (k=4)
GenSuffixLen == 4

\* The letters random.choices may draw (a sample of string.ascii_uppercase)
UpperSample == {"A", "F", "Z"}

\* Exceptions a step may raise
StepErrors == {"OSError", "ValueError", "KeyError"}

Seeds == {42, 7}

TsA == <<"2", "0", "2", "4", "0", "1", "0", "1", "_", "1", "2", "0", "0", "0", "0">>

TsB == <<"2", "0", "2", "3", "1", "1", "3", "0", "_", "0", "8", "1", "5", "5", "9">>

SufA == <<"a", "b", "c", "d", "e", "f">>

SufB == <<"1", "2", "3", "4", "5", "6", "7">>

SufC == <<"A", "B", "c", "0", "9", "F">>

MkRunId(ts, suffix) == ts \o <<"_", "#">> \o suffix

\* run ids a caller may pass to run_pipeline (--run-id)
OrchArgs == {NoRunId, MkRunId(TsA, SufA), <<"m", "y", "r", "u", "n">>}

\* _generate_run_id: f"{timestamp}_{suffix}" with a "%Y%m%dT%H%M%SZ" timestamp
\* and a suffix of GenSuffixLen random uppercase letters
GenerateRunId(now, letters) == StrftimeOrch(now) \o <<"_">> \o letters

FailureOf(e) == <<"failure", e>>

Success == <<"success">>

Put(f, k, v) == [x \in DOMAIN f \cup {k} |-> IF x = k THEN v ELSE f[x]]

EmptyMap == [x \in {} |-> None]

\* _write_run_manifest: the manifest document
Manifest(rid, sd, st) == [run_id |-> rid, seed |-> sd, step_status |-> st]

OrchStart ==
    /\ o_pc = "idle"
    /\ o_arg = NoRunId
    /\ run_id = NoRunId
    /\ seed = 0
    /\ rng = "unseeded"
    /\ next_step = 1
    /\ status = EmptyMap
    /\ calls = <<>>
    /\ meta_files = EmptyMap
    /\ o_error = None

\* run_pipeline, lines 143-149: choose the run id, seed the generators
RunPipelineBegin ==
    /\ OrchOnly
    /\ o_pc = "idle"
    /\ \E arg \in OrchArgs, sd \in Seeds, now \in Nows,
          letters \in [1..GenSuffixLen -> UpperSample] :
        /\ o_arg' = arg
        /\ run_id' = IF arg = NoRunId THEN GenerateRunId(now, letters) ELSE arg
        /\ seed' = sd
        /\ rng' = sd
    /\ o_pc' = "running"
    /\ status' = EmptyMap
    /\ UNCHANGED <<next_step, calls, meta_files, o_error>>

\* Mutant of AfterStepFailure: the except-block records the failure and goes on
AfterStepFailureSwallowed(e) ==
    /\ next_step' = next_step + 1
    /\ UNCHANGED <<o_pc, o_error, meta_files>>

\* What the except-block of a step does after recording the failure: `raise`
AfterStepFailure(e) ==
    /\ o_pc' = "raised"
    /\ o_error' = e
    /\ UNCHANGED <<next_step, meta_files>>

\* What follows a step that returned
AfterStepSuccess ==
    /\ next_step' = next_step + 1
    /\ UNCHANGED <<o_pc, o_error, meta_files>>

\* one try-block: the step is called and returns
StepReturns ==
    /\ OrchOnly
    /\ o_pc = "running"
    /\ next_step <= Len(STEPS)
    /\ calls' = Append(calls, STEPS[next_step])
    /\ status' = Put(status, STEPS[next_step], Success)
    /\ AfterStepSuccess
    /\ UNCHANGED <<o_arg, run_id, seed, rng>>

\* one try-block: the step is called and raises
StepRaises ==
    /\ OrchOnly
    /\ o_pc = "running"
    /\ next_step <= Len(STEPS)
    /\ \E e \in StepErrors :
        /\ calls' = Append(calls, STEPS[next_step])
        /\ status' = Put(status, STEPS[next_step], FailureOf(e))
        /\ AfterStepFailure(e)
    /\ UNCHANGED <<o_arg, run_id, seed, rng>>

\* lines 200-202: _write_run_manifest and _write_data_policy, then return
WriteManifestAndPolicy ==
    /\ OrchOnly
    /\ o_pc = "running"
    /\ next_step = Len(STEPS) + 1
    /\ meta_files' =
          Put(Put(meta_files, "run_manifest.json", Manifest(run_id, seed, status)),
              "data_policy.json", "policy")
    /\ o_pc' = "returned"
    /\ UNCHANGED <<o_arg, run_id, seed, rng, next_step, status, calls, o_error>>

OrchNext == RunPipelineBegin \/ StepReturns \/ StepRaises \/ WriteManifestAndPolicy

(***************************************************************************)
(* upstream_gold.py: with_retry and write_csv                              *)
(***************************************************************************)
\* MAX_IO_ATTEMPTS
MAX_IO_ATTEMPTS == 3

\* IO_BACKOFF_S = 0.5, in milliseconds
IO_BACKOFF_MS == 500

\* Largest attempts argument explored
MaxAttempts == 3

\* Largest number of data rows of a frame written by write_csv
MaxCsvRows == 2

\* A path at which no file exists
Absent == [exists |-> FALSE, lines |-> <<>>]

FileOf(lines) == [exists |-> TRUE, lines |-> lines]

OSErrors == {"OSError", "PermissionError"}

OtherErrors == {"ValueError", "TypeError"}

\* Mutant of IsTransient: `except Exception`
IsTransientAnyException(e) == TRUE

\* `except (OSError, IOError)`: IOError is OSError, subclasses are caught too
IsTransient(e) == e \in OSErrors

\* Mutant of IsLastAttempt: the comparison is off by one
IsLastAttemptOffByOne(attempt, attempts) == attempt = attempts + 1

\* `if attempt == attempts: raise`
IsLastAttempt(attempt, attempts) == attempt = attempts

\* `time.sleep(backoff_s * attempt)`
BackoffSleep(backoff, attempt) == backoff * attempt

\* The lines df.to_csv(path, index=False) writes: the header, then one per row
CsvLines(n) == <<<<"header">>>> \o [i \in 1..n |-> <<"row", i>>]

RetryStart ==
    /\ r_pc = "idle"
    /\ r_action = None
    /\ r_attempts = 0
    /\ r_backoff = 0
    /\ r_attempt = 0
    /\ r_outcomes = <<>>
    /\ r_sleeps = <<>>
    /\ r_error = None
    /\ r_df = 0
    /\ dest = Absent

\* with_retry(action, attempts=..., backoff_s=...) is entered
WithRetryBegin ==
    /\ RetryOnly
    /\ r_pc = "idle"
    /\ \E n \in 0..MaxAttempts, b \in {0, IO_BACKOFF_MS} :
        /\ r_attempts' = n
        /\ r_backoff' = b
    /\ r_action' = "call"
    /\ r_attempt' = 1
    /\ r_pc' = "running"
    /\ UNCHANGED <<r_outcomes, r_sleeps, r_error, r_df, dest>>

\* write_csv(df, path): with_retry(lambda: df.to_csv(path, index=False))
WriteCsvBegin ==
    /\ RetryOnly
    /\ r_pc = "idle"
    /\ \E n \in 0..MaxCsvRows : r_df' = n
    /\ r_attempts' = MAX_IO_ATTEMPTS
    /\ r_backoff' = IO_BACKOFF_MS
    /\ r_action' = "to_csv"
    /\ r_attempt' = 1
    /\ r_pc' = "running"
    /\ UNCHANGED <<r_outcomes, r_sleeps, r_error, dest>>

\* What an invocation of the action that returns does to the file system
ActionCompletes ==
    dest' = IF r_action = "to_csv" THEN FileOf(CsvLines(r_df)) ELSE dest

\* What an invocation of the action that raises does to the file system:
\* to_csv opens the destination itself for writing, so an error leaves it
\* untouched (open failed) or holding the lines written before the error
ActionFails ==
    IF r_action = "to_csv"
        THEN \/ dest' = dest
             \/ \E k \in 0..(Len(CsvLines(r_df)) - 1) : dest' = FileOf(SubSeq(CsvLines(r_df), 1, k))
        ELSE dest' = dest

\* loop body: the action returns, with_retry returns its result
AttemptReturns ==
    /\ RetryOnly
    /\ r_pc = "running"
    /\ r_attempt <= r_attempts
    /\ ActionCompletes
    /\ r_outcomes' = Append(r_outcomes, "ok")
    /\ r_pc' = "returned"
    /\ UNCHANGED <<r_action, r_attempts, r_backoff, r_attempt, r_sleeps, r_error, r_df>>

\* loop body: the action raises an error the except clause catches, and it is
\* not the last attempt: sleep, then the next iteration
AttemptRetried ==
    /\ RetryOnly
    /\ r_pc = "running"
    /\ r_attempt <= r_attempts
    /\ \E e \in OSErrors \cup OtherErrors :
        /\ IsTransient(e)
        /\ ~IsLastAttempt(r_attempt, r_attempts)
        /\ r_outcomes' = Append(r_outcomes, e)
    /\ ActionFails
    /\ r_sleeps' = Append(r_sleeps, BackoffSleep(r_backoff, r_attempt))
    /\ r_attempt' = r_attempt + 1
    /\ UNCHANGED <<r_pc, r_action, r_attempts, r_backoff, r_error, r_df>>

\* loop body: the action raises a caught error on the last attempt: `raise`
AttemptGivesUp ==
    /\ RetryOnly
    /\ r_pc = "running"
    /\ r_attempt <= r_attempts
    /\ \E e \in OSErrors \cup OtherErrors :
        /\ IsTransient(e)
        /\ IsLastAttempt(r_attempt, r_attempts)
        /\ r_outcomes' = Append(r_outcomes, e)
        /\ r_error' = e
    /\ ActionFails
    /\ r_pc' = "raised"
    /\ UNCHANGED <<r_action, r_attempts, r_backoff, r_attempt, r_sleeps, r_df>>

\* loop body: the action raises an error the except clause does not catch
AttemptPropagates ==
    /\ RetryOnly
    /\ r_pc = "running"
    /\ r_attempt <= r_attempts
    /\ \E e \in OSErrors \cup OtherErrors :
        /\ ~IsTransient(e)
        /\ r_outcomes' = Append(r_outcomes, e)
        /\ r_error' = e
    /\ ActionFails
    /\ r_pc' = "raised"
    /\ UNCHANGED <<r_action, r_attempts, r_backoff, r_attempt, r_sleeps, r_df>>

\* range(1, attempts + 1) is exhausted: the function falls off its end
LoopExhausted ==
    /\ RetryOnly
    /\ r_pc = "running"
    /\ r_attempt > r_attempts
    /\ r_pc' = "returned"
    /\ UNCHANGED <<r_action, r_attempts, r_backoff, r_attempt, r_outcomes, r_sleeps,
                   r_error, r_df, dest>>

RetryNext ==
    \/ WithRetryBegin
    \/ WriteCsvBegin
    \/ AttemptReturns
    \/ AttemptRetried
    \/ AttemptGivesUp
    \/ AttemptPropagates
    \/ LoopExhausted


(***************************************************************************)
(* upstream_gold.py: sha256_file                                           *)
(***************************************************************************)
\* Largest number of chunks of a file
MaxChunks == 2

\* the contents a chunk may have
ChunkValues == {"a", "b"}

HashFiles == UNION {[1..n -> ChunkValues] : n \in 0..MaxChunks}

\* h.hexdigest(): the digest stands for the bytes given to h.update, in order
HexDigest(fed) == <<"sha256", fed>>

HashStart ==
    /\ h_pc = "idle"
    /\ h_file = <<>>
    /\ h_fed = <<>>
    /\ h_attempt = 0
    /\ h_pos = 0
    /\ h_digest = None
    /\ h_error = None

\* lines 198-207: h = hashlib.sha256(), with_retry(_read) is entered
Sha256FileBegin ==
    /\ HashOnly
    /\ h_pc = "idle"
    /\ \E file \in HashFiles : h_file' = file
    /\ h_fed' = <<>>
    /\ h_attempt' = 1
    /\ h_pos' = 0
    /\ h_pc' = "reading"
    /\ UNCHANGED <<h_digest, h_error>>

\* lines 202-206: a chunk is read and given to h.update
HashReadChunk ==
    /\ HashOnly
    /\ h_pc = "reading"
    /\ h_pos < Len(h_file)
    /\ h_fed' = Append(h_fed, h_file[h_pos + 1])
    /\ h_pos' = h_pos + 1
    /\ UNCHANGED <<h_pc, h_file, h_attempt, h_digest, h_error>>

\* open or f.read raises OSError, not on the last attempt: with_retry sleeps
\* and calls _read again, which opens the file anew
HashReadRetried ==
    /\ HashOnly
    /\ h_pc = "reading"
    /\ ~IsLastAttempt(h_attempt, MAX_IO_ATTEMPTS)
    /\ h_attempt' = h_attempt + 1
    /\ h_pos' = 0
    /\ UNCHANGED <<h_pc, h_file, h_fed, h_digest, h_error>>

\* open or f.read raises OSError on the last attempt: it leaves sha256_file
HashReadGivesUp ==
    /\ HashOnly
    /\ h_pc = "reading"
    /\ IsLastAttempt(h_attempt, MAX_IO_ATTEMPTS)
    /\ h_error' = "OSError"
    /\ h_pc' = "raised"
    /\ UNCHANGED <<h_file, h_fed, h_attempt, h_pos, h_digest>>

\* lines 204-208: f.read returns b"", _read returns, the digest is returned
Sha256FileReturns ==
    /\ HashOnly
    /\ h_pc = "reading"
    /\ h_pos = Len(h_file)
    /\ h_digest' = HexDigest(h_fed)
    /\ h_pc' = "returned"
    /\ UNCHANGED <<h_file, h_fed, h_attempt, h_pos, h_error>>

HashNext ==
    \/ Sha256FileBegin
    \/ HashReadChunk
    \/ HashReadRetried
    \/ HashReadGivesUp
    \/ Sha256FileReturns

(***************************************************************************)
(* Tables: a CSV file is its header and its data rows, a cell is its text  *)
(***************************************************************************)
\* pandas' missing value
NA == <<"<NA>">>

\* Largest number of data rows of a Bronze file
MaxRows == 2

CsvFile(header, rows) == [kind |-> "csv", header |-> header, rows |-> rows]

\* A zero-byte file, and a file that is not UTF-8 text
EmptyFile == [kind |-> "empty", header |-> <<>>, rows |-> <<>>]

BinaryFile == [kind |-> "binary", header |-> <<>>, rows |-> <<>>]

DigitVal(c) == CodePoint(c) - CodePoint("0")

IsDigits(t) == Len(t) > 0 /\ \A i \in 1..Len(t) : t[i] \in Digit

RECURSIVE NatOf(_)
NatOf(t) == IF t = <<>> THEN 0 ELSE 10 * NatOf(SubSeq(t, 1, Len(t) - 1)) + DigitVal(t[Len(t)])

RECURSIVE NatText(_)
NatText(n) == IF n < 10 THEN <<DigitChars[n + 1]>> ELSE NatText(n \div 10) \o <<DigitChars[(n % 10) + 1]>>

DotAt(t) == {i \in 1..Len(t) : t[i] = "."}

\* text of the form <digits>.<digits>
IsDecimalText(t) ==
    /\ Cardinality(DotAt(t)) = 1
    /\ LET d == CHOOSE i \in DotAt(t) : TRUE IN
          IsDigits(SubSeq(t, 1, d - 1)) /\ IsDigits(SubSeq(t, d + 1, Len(t)))

IntPart(t) == SubSeq(t, 1, (CHOOSE i \in DotAt(t) : TRUE) - 1)

FracPart(t) == SubSeq(t, (CHOOSE i \in DotAt(t) : TRUE) + 1, Len(t))

\* a parsed number with a non-zero fractional part
IsFractional(t) == IsDecimalText(t) /\ NatOf(FracPart(t)) # 0

\* the fractional digits without trailing zeros
RECURSIVE TrimZeros(_)
TrimZeros(t) ==
    IF Len(t) > 0 /\ t[Len(t)] = "0" THEN TrimZeros(SubSeq(t, 1, Len(t) - 1)) ELSE t

IsLeap(y) == (y % 4 = 0 /\ y % 100 # 0) \/ y % 400 = 0

DaysIn(y, m) ==
    IF m = 2 THEN (IF IsLeap(y) THEN 29 ELSE 28)
    ELSE IF m \in {4, 6, 9, 11} THEN 30 ELSE 31

\* text of the form YYYY-MM-DD naming a calendar day
IsIsoDate(t) ==
    /\ Len(t) = 10
    /\ t[5] = "-" /\ t[8] = "-"
    /\ IsDigits(SubSeq(t, 1, 4)) /\ IsDigits(SubSeq(t, 6, 7)) /\ IsDigits(SubSeq(t, 9, 10))
    /\ LET y == NatOf(SubSeq(t, 1, 4))
           m == NatOf(SubSeq(t, 6, 7))
           d == NatOf(SubSeq(t, 9, 10))
       IN  y >= 1 /\ m \in 1..12 /\ d >= 1 /\ d <= DaysIn(y, m)

HasCol(df, col) == \E i \in 1..Len(df.columns) : df.columns[i] = col

\* df[col] = df[col].map(F), cell by cell
MapCol(df, col, F(_)) ==
    [df EXCEPT !.rows =
        [r \in 1..Len(df.rows) |->
            [c \in 1..Len(df.rows[r]) |->
                IF df.columns[c] = col THEN F(df.rows[r][c]) ELSE df.rows[r][c]]]]

\* the same map applied to every column
MapAll(df, F(_)) ==
    [df EXCEPT !.rows =
        [r \in 1..Len(df.rows) |-> [c \in 1..Len(df.rows[r]) |-> F(df.rows[r][c])]]]

ColCells(df, col) ==
    {df.rows[r][c] : r \in 1..Len(df.rows), c \in {i \in 1..Len(df.columns) : df.columns[i] = col}}

(***************************************************************************)
(* upstream_silver.py: the Silver transformations                          *)
(***************************************************************************)
\* read_csv's default na_values (those over the model's characters)
PdNaValues ==
    { <<>>, <<"N", "A">>, <<"N", "U", "L", "L">>, <<"N", "a", "N">>,
      <<"n", "a", "n">>, <<"n", "u", "l", "l">> }

ReadCell(raw) == IF raw \in PdNaValues THEN NA ELSE raw

\* pd.read_csv(src_path) of a well-formed file
ReadCsv(file) ==
    [columns |-> file.header,
     rows |-> [r \in 1..Len(file.rows) |->
                  [c \in 1..Len(file.rows[r]) |-> ReadCell(file.rows[r][c])]]]

\* the exception pd.read_csv raises on a file it cannot parse
ReadCsvError(file) ==
    IF file.kind = "empty" THEN "EmptyDataError" ELSE "UnicodeDecodeError"

\* .str.strip() then .replace({"": pd.NA})
BaseCell(c) ==
    IF c = NA THEN NA
    ELSE LET t == Strip(c) IN IF t = <<>> THEN NA ELSE t

\* Mutant of BaseSilverCleaning: rows with a missing value are dropped (dropna)
BaseSilverCleaningDropNa(df) ==
    LET out == MapAll(df, BaseCell) IN
        [out EXCEPT !.rows =
            SelectSeq(out.rows, LAMBDA row : \A c \in 1..Len(row) : row[c] # NA)]

\* base_silver_cleaning
BaseSilverCleaning(df) == MapAll(df, BaseCell)

\* pd.to_numeric(errors="coerce") then .astype("Int64"), for a column whose
\* numbers are all whole
IntegerIdCell(c) ==
    IF c = NA THEN NA
    ELSE IF IsDigits(c) THEN NatText(NatOf(c))
    ELSE IF IsDecimalText(c) THEN NatText(NatOf(IntPart(c)))
    ELSE NA

\* .astype("Int64") raises TypeError when a number of the column is not whole
IntegerIdRaises(df, col) ==
    HasCol(df, col) /\ \E c \in ColCells(df, col) : c # NA /\ IsFractional(c)

\* normalize_integer_id
NormalizeIntegerId(df, col) == MapCol(df, col, IntegerIdCell)

DateCell(c) == IF c # NA /\ IsIsoDate(c) THEN c ELSE NA

\* normalize_date_column (ISO dates pass, anything else of the model's texts is NaT)
NormalizeDateColumn(df, col) == MapCol(df, col, DateCell)

\* the cst_gndr mapping of transform_cst_info
GenderCell(c) ==
    IF c = NA THEN NA
    ELSE LET t == Upper(Strip(c)) IN
        IF t \in {<<"M", "A", "L", "E">>, <<"M">>} THEN <<"M">>
        ELSE IF t \in {<<"F", "E", "M", "A", "L", "E">>, <<"F">>} THEN <<"F">>
        ELSE IF t \in {<<>>, <<"N", "A", "N">>, <<"N", "O", "N", "E">>, <<"N", "U", "L", "L">>}
            THEN NA
        ELSE t

\* the closing replace of transform_cst_info over every column
FinalCell(c) ==
    IF c \in {<<>>, <<"n", "a", "n">>, <<"N", "a", "N">>, <<"n", "u", "l", "l">>,
              <<"N", "U", "L", "L">>}
        THEN NA
        ELSE c

\* transform_cst_info
TransformCstInfo(df) ==
    LET d1 == BaseSilverCleaning(df)
        d2 == NormalizeIntegerId(d1, "cst_id")
        d3 == NormalizeDateColumn(d2, "cst_create_date")
        d4 == MapCol(MapCol(MapCol(d3, "cst_firstname", BaseCell), "cst_lastname", BaseCell),
                     "cst_marital_status", BaseCell)
        d5 == MapCol(d4, "cst_gndr", GenderCell)
    IN  MapAll(d5, FinalCell)

\* the file names of the model, as sorted() orders them
NamesSorted == <<"CST_INFO.CSV", "cst_info.csv", "notes.txt", "sales_transactions.csv">>

\* filename.lower()
LowerName(n) == IF n = "CST_INFO.CSV" THEN "cst_info.csv" ELSE n

\* name.endswith(".csv")
EndsWithCsv(n) == n \in {"cst_info.csv", "sales_transactions.csv"}

\* transform_for_silver raises (the Int64 cast of transform_cst_info)
TransformRaises(filename, df) ==
    LowerName(filename) = "cst_info.csv" /\ IntegerIdRaises(BaseSilverCleaning(df), "cst_id")

\* transform_for_silver
TransformForSilver(filename, df) ==
    IF LowerName(filename) = "cst_info.csv" THEN TransformCstInfo(df) ELSE BaseSilverCleaning(df)

\* DataFrame.to_csv(path, index=False): a missing value is written as empty text
ToCsv(df) ==
    CsvFile(df.columns,
            [r \in 1..Len(df.rows) |->
                [c \in 1..Len(df.rows[r]) |-> IF df.rows[r][c] = NA THEN <<>> ELSE df.rows[r][c]]])

\* a destination that a failed to_csv left behind after k data rows
PartialCsv(file, k) == [kind |-> "partial", header |-> file.header, rows |-> SubSeq(file.rows, 1, k)]

\* sorted(os.listdir(dir))
SortedListing(dir) == SelectSeq(NamesSorted, LAMBDA n : n \in DOMAIN dir)

\* make_silver_run_id_from_bronze / make_gold_run_id_from_silver, for a matching id
DeriveRunId(upstream_run_id, now) ==
    StrftimeLayer(now) \o <<"_", "#">> \o RunIdSuffix(upstream_run_id)

\* find_latest_bronze_run_id / find_latest_run_id over the directory names
MatchingRuns(names) == {n \in names : RunIdReMatch(n)}

FindLatest(names) == StrMax(MatchingRuns(names))

(***************************************************************************)
(* upstream_silver.py: main                                                *)
(***************************************************************************)
\* a run id that names no Bronze run directory
StrayRunId == MkRunId(TsB, SufC)

\* what sys.argv[1] may be (NoRunId: no argument)
SilverArgs == DOMAIN bronze_root \cup {NoRunId, StrayRunId}

Rec(file, st, rows_in, rows_out, error_type) ==
    [file |-> file, status |-> st, rows_in |-> rows_in, rows_out |-> rows_out,
     error_type |-> error_type]

SilverStart ==
    /\ s_pc = "idle"
    /\ s_bronze_run_id = NoRunId
    /\ s_run_id = NoRunId
    /\ s_todo = <<>>
    /\ s_results = <<>>
    /\ s_tables = EmptyMap
    /\ s_out = EmptyMap
    /\ s_meta = None
    /\ s_error = None

\* lines 284-288: the exception that ends main before the loop, or None
SilverBeginError(argv1) ==
    IF argv1 = NoRunId /\ MatchingRuns(DOMAIN bronze_root) = {} THEN "FileNotFoundError"
    ELSE LET b == IF argv1 = NoRunId THEN FindLatest(DOMAIN bronze_root) ELSE argv1 IN
        IF b \notin DOMAIN bronze_root THEN "FileNotFoundError"
        ELSE IF ~RunIdReMatch(b) THEN "ValueError"
        ELSE None

\* lines 284-346: resolve the Bronze run, derive the Silver run id, make the folders
SilverMainBegin ==
    /\ SilverOnly
    /\ s_pc = "idle"
    /\ l_pc = "idle"
    /\ \E argv1 \in SilverArgs, now \in Nows :
        /\ SilverBeginError(argv1) = None
        /\ LET b == IF argv1 = NoRunId THEN FindLatest(DOMAIN bronze_root) ELSE argv1 IN
            /\ s_bronze_run_id' = b
            /\ s_run_id' = DeriveRunId(b, now)
            /\ silver_root' = silver_root \cup {DeriveRunId(b, now)}
            /\ s_todo' = SortedListing(bronze_root[b])
    /\ s_pc' = "loop"
    /\ UNCHANGED <<bronze_root, gold_root, s_results, s_tables, s_out, s_meta, s_error>>

\* lines 284-292: main raises before any folder is made
SilverMainAborts ==
    /\ SilverOnly
    /\ s_pc = "idle"
    /\ l_pc = "idle"
    /\ \E argv1 \in SilverArgs :
        /\ SilverBeginError(argv1) # None
        /\ s_error' = SilverBeginError(argv1)
        /\ s_bronze_run_id' = argv1
    /\ s_pc' = "raised"
    /\ UNCHANGED <<treeVars, s_run_id, s_todo, s_results, s_tables, s_out, s_meta>>

SilverFileName == Head(s_todo)

SilverSource == bronze_root[s_bronze_run_id][SilverFileName]

\* lines 402-426: results.append(rec); metadata["tables"][filename] = ...
SilverRecord(rec) ==
    /\ s_results' = Append(s_results, rec)
    /\ s_tables' = Put(s_tables, rec.file, rec)
    /\ s_todo' = Tail(s_todo)
    /\ UNCHANGED <<treeVars, s_pc, s_bronze_run_id, s_run_id, s_meta, s_error>>

\* lines 349-350: not a .csv name, `continue`
SilverSkipFile ==
    /\ SilverOnly
    /\ s_pc = "loop" /\ s_todo # <<>>
    /\ ~EndsWithCsv(LowerName(SilverFileName))
    /\ s_todo' = Tail(s_todo)
    /\ UNCHANGED <<treeVars, s_pc, s_bronze_run_id, s_run_id, s_results, s_tables, s_out,
                   s_meta, s_error>>

\* lines 371-396: read, transform and write all succeed
SilverFileSucceeds ==
    /\ SilverOnly
    /\ s_pc = "loop" /\ s_todo # <<>>
    /\ EndsWithCsv(LowerName(SilverFileName))
    /\ SilverSource.kind = "csv"
    /\ LET df == ReadCsv(SilverSource) IN
        /\ ~TransformRaises(SilverFileName, df)
        /\ LET cleaned == TransformForSilver(SilverFileName, df) IN
            /\ s_out' = Put(s_out, SilverFileName, ToCsv(cleaned))
            /\ SilverRecord(Rec(SilverFileName, "SUCCESS", Len(df.rows), Len(cleaned.rows), None))

\* lines 371-379 raise (stat, checksum or read_csv): caught at line 397
SilverFileReadFails ==
    /\ SilverOnly
    /\ s_pc = "loop" /\ s_todo # <<>>
    /\ EndsWithCsv(LowerName(SilverFileName))
    /\ \E e \in {"OSError"} \cup
                (IF SilverSource.kind = "csv" THEN {} ELSE {ReadCsvError(SilverSource)}) :
        SilverRecord(Rec(SilverFileName, "FAILED", 0, 0, e))
    /\ UNCHANGED s_out

\* line 384 raises: caught at line 397 with rows_in already recorded
SilverFileTransformFails ==
    /\ SilverOnly
    /\ s_pc = "loop" /\ s_todo # <<>>
    /\ EndsWithCsv(LowerName(SilverFileName))
    /\ SilverSource.kind = "csv"
    /\ LET df == ReadCsv(SilverSource) IN
        /\ TransformRaises(SilverFileName, df)
        /\ SilverRecord(Rec(SilverFileName, "FAILED", Len(df.rows), 0, "TypeError"))
    /\ UNCHANGED s_out

\* line 389 raises: cleaned.to_csv(out_path) writes into the destination itself
SilverFileWriteFails ==
    /\ SilverOnly
    /\ s_pc = "loop" /\ s_todo # <<>>
    /\ EndsWithCsv(LowerName(SilverFileName))
    /\ SilverSource.kind = "csv"
    /\ LET df == ReadCsv(SilverSource) IN
        /\ ~TransformRaises(SilverFileName, df)
        /\ LET cleaned == TransformForSilver(SilverFileName, df) IN
            /\ \/ s_out' = s_out
               \/ \E k \in 0..Len(cleaned.rows) :
                    s_out' = Put(s_out, SilverFileName, PartialCsv(ToCsv(cleaned), k))
            /\ SilverRecord(Rec(SilverFileName, "FAILED", Len(df.rows), Len(cleaned.rows),
                                "OSError"))

\* lines 427-462: the summary, metadata.yaml and the report are written
SilverMainFinish ==
    /\ SilverOnly
    /\ s_pc = "loop" /\ s_todo = <<>>
    /\ s_meta' =
          [tables |-> s_tables,
           files_total |-> Len(s_results),
           files_success |->
               Cardinality({i \in 1..Len(s_results) : s_results[i].status = "SUCCESS"})]
    /\ s_pc' = "returned"
    /\ UNCHANGED <<treeVars, s_bronze_run_id, s_run_id, s_todo, s_results, s_tables, s_out,
                   s_error>>

SilverNext ==
    \/ SilverMainBegin
    \/ SilverMainAborts
    \/ SilverSkipFile
    \/ SilverFileSucceeds
    \/ SilverFileReadFails
    \/ SilverFileTransformFails
    \/ SilverFileWriteFails
    \/ SilverMainFinish

(***************************************************************************)
(* silver_layer.py: run_silver                                             *)
(***************************************************************************)
NumericCols == {"quantity", "unit_price", "price"}

DateCols == {"date_of_birth", "transaction_date"}

\* str(float(val)), or "" when float(val) raises ValueError
FloatText(t) ==
    IF IsDigits(t) THEN NatText(NatOf(t)) \o <<".", "0">>
    ELSE IF IsDecimalText(t)
        THEN NatText(NatOf(IntPart(t))) \o <<".">>
                \o (IF TrimZeros(FracPart(t)) = <<>> THEN <<"0">> ELSE TrimZeros(FracPart(t)))
    ELSE <<>>

\* datetime.fromisoformat(val).date().isoformat(), or "" on ValueError
IsoDateText(t) == IF IsIsoDate(t) THEN t ELSE <<>>

Min(a, b) == IF a < b THEN a ELSE b

\* _clean_row: zip(header, row) pairs as many cells as the shorter of the two
CleanRow(header, row) ==
    [c \in 1..Min(Len(header), Len(row)) |->
        LET val == Strip(row[c]) IN
            IF header[c] \in NumericCols THEN FloatText(val)
            ELSE IF header[c] \in DateCols THEN IsoDateText(val)
            ELSE val]

\* line 132: cleaned_rows = [_clean_row(header, row) for row in rows]
CleanRows(header, rows) == [r \in 1..Len(rows) |-> CleanRow(header, rows[r])]

\* lines 137-144: the column types recorded for a file
ColumnTypes(header) ==
    [c \in {header[i] : i \in 1..Len(header)} |->
        IF c \in NumericCols THEN "float" ELSE IF c \in DateCols THEN "date" ELSE "string"]

\* Path.glob("*.csv") matches the lower-case extension only
GlobCsv(n) == n \in {"cst_info.csv", "sales_transactions.csv"}

\* the exception _read_csv raises on a file it cannot read: next(reader) on an
\* empty file, the decoder on bytes that are not UTF-8
LayerReadError(file) ==
    IF file.kind = "empty" THEN "StopIteration" ELSE "UnicodeDecodeError"

LayerStart ==
    /\ l_pc = "idle"
    /\ l_run_id = NoRunId
    /\ l_todo = {}
    /\ l_out = EmptyMap
    /\ l_metadata = EmptyMap
    /\ l_meta = None
    /\ l_error = None

\* lines 120-130: the folders are made and the glob starts
RunSilverBegin ==
    /\ LayerOnly
    /\ l_pc = "idle"
    /\ s_pc = "idle"
    /\ \E rid \in DOMAIN bronze_root :
        /\ l_run_id' = rid
        /\ l_todo' = {n \in DOMAIN bronze_root[rid] : GlobCsv(n)}
    /\ l_pc' = "loop"
    /\ UNCHANGED <<l_out, l_metadata, l_meta, l_error>>

\* lines 131-155: one file is read, cleaned, written and recorded
RunSilverFile ==
    /\ LayerOnly
    /\ l_pc = "loop"
    /\ \E f \in l_todo :
        LET file == bronze_root[l_run_id][f] IN
            /\ file.kind = "csv"
            /\ l_out' = Put(l_out, f, CsvFile(file.header, CleanRows(file.header, file.rows)))
            /\ l_metadata' = Put(l_metadata, f, ColumnTypes(file.header))
            /\ l_todo' = l_todo \ {f}
    /\ UNCHANGED <<l_pc, l_run_id, l_meta, l_error>>

\* line 131 raises: nothing in run_silver catches it
RunSilverReadRaises ==
    /\ LayerOnly
    /\ l_pc = "loop"
    /\ \E f \in l_todo :
        LET file == bronze_root[l_run_id][f] IN
            \E e \in {"OSError"} \cup (IF file.kind = "csv" THEN {} ELSE {LayerReadError(file)}) :
                l_error' = e
    /\ l_pc' = "raised"
    /\ UNCHANGED <<l_run_id, l_todo, l_out, l_metadata, l_meta>>

\* line 135 raises: _write_csv writes into the destination itself
RunSilverWriteRaises ==
    /\ LayerOnly
    /\ l_pc = "loop"
    /\ \E f \in l_todo :
        LET file == bronze_root[l_run_id][f]
            out == CsvFile(file.header, CleanRows(file.header, file.rows))
        IN  /\ file.kind = "csv"
            /\ \/ l_out' = l_out
               \/ \E k \in 0..Len(out.rows) : l_out' = Put(l_out, f, PartialCsv(out, k))
    /\ l_error' = "OSError"
    /\ l_pc' = "raised"
    /\ UNCHANGED <<l_run_id, l_todo, l_metadata, l_meta>>

\* lines 156-160: silver_metadata.yaml and the report are written
RunSilverFinish ==
    /\ LayerOnly
    /\ l_pc = "loop"
    /\ l_todo = {}
    /\ l_meta' = l_metadata
    /\ l_pc' = "returned"
    /\ UNCHANGED <<l_run_id, l_todo, l_out, l_metadata, l_error>>

LayerNext ==
    \/ RunSilverBegin
    \/ RunSilverFile
    \/ RunSilverReadRaises
    \/ RunSilverWriteRaises
    \/ RunSilverFinish

(***************************************************************************)
(* upstream_gold.py: main, the resolution of the run identifiers           *)
(***************************************************************************)
\* bool(s) of an optional str: None and "" are falsy
Truthy(x) == x # NoRunId /\ x # <<>>

\* a or b
PyOr(a, b) == IF Truthy(a) THEN a ELSE b

\* what sys.argv[2], RUN_ID and ORCHESTRATOR_RUN_ID may hold (NoRunId: not given)
RequestedIds ==
    {NoRunId, <<>>, MkRunId(TsA, SufA), MkRunId(TsB, SufC), <<"m", "y", "r", "u", "n">>}

\* what sys.argv[1] may be (NoRunId: no argument)
GoldArgs == silver_root \cup {NoRunId, StrayRunId}

\* lines 699-703: requested_run_id
RequestedRunId(argv2, env_run_id, env_orch) ==
    IF argv2 # NoRunId THEN argv2 ELSE PyOr(env_run_id, env_orch)

\* Mutant of UseRequested: the requested id is used without the format check
UseRequestedUnchecked(requested) == Truthy(requested)

\* line 704: `if requested_run_id and RUN_ID_RE.match(requested_run_id)`
UseRequested(requested) == Truthy(requested) /\ RunIdReMatch(requested)

\* line 724: `if requested_run_id and not RUN_ID_RE.match(requested_run_id)`
NoteNeeded(requested) == Truthy(requested) /\ ~RunIdReMatch(requested)

\* lines 725-727: the note that records the substitution
SubstitutionNote(requested) == <<"requested run_id did not match; generated run_id used", requested>>

GoldStart ==
    /\ g_pc = "idle"
    /\ g_silver_run_id = NoRunId
    /\ g_start = CHOOSE n \in Nows : TRUE
    /\ g_requested = NoRunId
    /\ gold_run_id = NoRunId
    /\ run_id_source = None
    /\ g_suffix = NoRunId
    /\ g_notes = <<>>
    /\ g_error = None
    /\ g_tables = <<>>
    /\ g_mart = 1
    /\ g_outputs = <<>>
    /\ g_errors = <<>>
    /\ gold_data = <<>>
    /\ g_meta = <<>>
    /\ g_html = <<>>

\* lines 696-697: the exception raised while locating the Silver run, or None
GoldLocateError(argv1) ==
    IF argv1 = NoRunId /\ MatchingRuns(silver_root) = {} THEN "FileNotFoundError"
    ELSE IF argv1 # NoRunId /\ argv1 \notin silver_root THEN "FileNotFoundError"
    ELSE None

GoldSilverRunId(argv1) == IF argv1 = NoRunId THEN FindLatest(silver_root) ELSE argv1

\* lines 696-740: the run ids are resolved and the Gold folders made
GoldMainBegin ==
    /\ GoldOnly
    /\ g_pc = "idle"
    /\ \E argv1 \in GoldArgs, argv2 \in RequestedIds, env_run_id \in RequestedIds,
          env_orch \in RequestedIds, now \in Nows :
        /\ GoldLocateError(argv1) = None
        /\ LET sid == GoldSilverRunId(argv1)
               requested == RequestedRunId(argv2, env_run_id, env_orch)
               gid == IF UseRequested(requested) THEN requested ELSE DeriveRunId(sid, now)
           IN  /\ UseRequested(requested) \/ RunIdReMatch(sid)
               /\ g_silver_run_id' = sid
               /\ g_start' = now
               /\ g_requested' = requested
               /\ gold_run_id' = gid
               /\ run_id_source' = IF UseRequested(requested) THEN "provided" ELSE "generated"
               /\ g_suffix' = IF RunIdReMatch(sid) THEN RunIdSuffix(sid) ELSE NoRunId
               /\ gold_root' = gold_root \cup {gid}
               /\ g_notes' = IF NoteNeeded(requested)
                                THEN <<SubstitutionNote(requested)>> ELSE <<>>
    /\ g_pc' = "build"
    /\ UNCHANGED <<bronze_root, silver_root, g_error>>

\* lines 696-697 raise FileNotFoundError: no Silver run, or no data directory
GoldMainNotFound ==
    /\ GoldOnly
    /\ g_pc = "idle"
    /\ \E argv1 \in GoldArgs :
        /\ GoldLocateError(argv1) # None
        /\ g_error' = GoldLocateError(argv1)
        /\ g_silver_run_id' = argv1
    /\ g_pc' = "raised"
    /\ UNCHANGED <<treeVars, g_start, g_requested, gold_run_id, run_id_source, g_suffix, g_notes>>

\* line 708 raises ValueError: make_gold_run_id_from_silver on a Silver run id
\* that does not match, reached when the requested id is not used
GoldMainInvalidSilver ==
    /\ GoldOnly
    /\ g_pc = "idle"
    /\ \E argv1 \in GoldArgs, argv2 \in RequestedIds, env_run_id \in RequestedIds,
          env_orch \in RequestedIds, now \in Nows :
        /\ GoldLocateError(argv1) = None
        /\ LET sid == GoldSilverRunId(argv1)
               requested == RequestedRunId(argv2, env_run_id, env_orch)
           IN  /\ ~UseRequested(requested)
               /\ ~RunIdReMatch(sid)
               /\ g_silver_run_id' = sid
               /\ g_start' = now
               /\ g_requested' = requested
    /\ g_error' = "ValueError"
    /\ g_pc' = "raised"
    /\ UNCHANGED <<treeVars, gold_run_id, run_id_source, g_suffix, g_notes>>

GoldNext == GoldMainBegin \/ GoldMainNotFound \/ GoldMainInvalidSilver

(***************************************************************************)
(* upstream_gold.py: frames and the mart builders                          *)
(***************************************************************************)
\* REQUIRED_SCHEMAS, in the order main loads and validates the files
GoldFiles ==
    <<"sales_details.csv", "prd_info.csv", "PX_CAT_G1V2.csv", "cst_info.csv", "CST_AZ12.csv",
      "LOC_A101.csv">>

SalesCols ==
    <<"sls_ord_num", "sls_prd_key", "sls_cust_id", "sls_sales", "sls_quantity", "sls_price",
      "sls_order_dt", "sls_ship_dt", "sls_due_dt">>

PrdCols == <<"prd_key", "prd_nm", "prd_cost", "prd_line", "prd_start_dt", "prd_end_dt">>

PxCols == <<"ID", "CAT", "SUBCAT", "MAINTENANCE">>

CstCols ==
    <<"cst_id", "cst_key", "cst_firstname", "cst_lastname", "cst_marital_status", "cst_gndr",
      "cst_create_date">>

AzCols == <<"CID", "BDATE", "GEN">>

LocCols == <<"CID", "CNTRY">>

REQUIRED_SCHEMAS ==
    [n \in {GoldFiles[i] : i \in DOMAIN GoldFiles} |->
        CASE n = "sales_details.csv" -> SalesCols
          [] n = "prd_info.csv" -> PrdCols
          [] n = "PX_CAT_G1V2.csv" -> PxCols
          [] n = "cst_info.csv" -> CstCols
          [] n = "CST_AZ12.csv" -> AzCols
          [] n = "LOC_A101.csv" -> LocCols]

\* load_csv returns None: the file does not exist
NoFrame == [absent |-> TRUE]

\* validate_required_columns: the required columns the frame lacks
MissingColumns(df, required) == SelectSeq(required, LAMBDA col : ~HasCol(df, col))

ColIdx(df, col) == CHOOSE i \in 1..Len(df.columns) : df.columns[i] = col

\* df[col] = <F of the row>, for a column the frame does not have yet
AddCol(df, col, F(_)) ==
    [columns |-> Append(df.columns, col),
     rows |-> [r \in 1..Len(df.rows) |-> Append(df.rows[r], F(df.rows[r]))]]

\* `for col in out_cols: if col not in df.columns: df[col] = None`
RECURSIVE EnsureCols(_, _)
EnsureCols(df, cols) ==
    IF cols = <<>> THEN df
    ELSE EnsureCols(IF HasCol(df, Head(cols)) THEN df
                    ELSE AddCol(df, Head(cols), LAMBDA row : NA), Tail(cols))

\* df[cols]
SelectCols(df, cols) ==
    [columns |-> cols,
     rows |-> [r \in 1..Len(df.rows) |-> [c \in 1..Len(cols) |-> df.rows[r][ColIdx(df, cols[c])]]]]

KeyOf(df, row, keys) == [k \in 1..Len(keys) |-> row[ColIdx(df, keys[k])]]

\* Mutant of DropDuplicates: the last row of every key is kept
DropDuplicatesKeepLast(df, keys) ==
    [df EXCEPT !.rows =
        LET keep == {r \in 1..Len(df.rows) :
                        \A q \in (r + 1)..Len(df.rows) :
                            KeyOf(df, df.rows[q], keys) # KeyOf(df, df.rows[r], keys)}
            F[r \in 0..Len(df.rows)] ==
                IF r = 0 THEN <<>> ELSE IF r \in keep THEN Append(F[r - 1], df.rows[r]) ELSE F[r - 1]
        IN  F[Len(df.rows)]]

\* df.drop_duplicates(subset=keys): the first row of every key is kept
DropDuplicates(df, keys) ==
    [df EXCEPT !.rows =
        LET keep == {r \in 1..Len(df.rows) :
                        \A q \in 1..(r - 1) : KeyOf(df, df.rows[q], keys) # KeyOf(df, df.rows[r], keys)}
            F[r \in 0..Len(df.rows)] ==
                IF r = 0 THEN <<>> ELSE IF r \in keep THEN Append(F[r - 1], df.rows[r]) ELSE F[r - 1]
        IN F[Len(df.rows)]]

\* left.merge(right[take], left_on=lkey, right_on=rkey, how="left"): every left
\* row once per right row with its key, or once with missing values
LeftMerge(left, right, lkey, rkey, take) ==
    LET matches(row) ==
            SelectSeq(right.rows, LAMBDA rr : rr[ColIdx(right, rkey)] = row[ColIdx(left, lkey)])
        taken(rr) == [c \in 1..Len(take) |-> rr[ColIdx(right, take[c])]]
        joined(row) ==
            IF matches(row) = <<>> THEN << row \o [c \in 1..Len(take) |-> NA] >>
            ELSE [m \in 1..Len(matches(row)) |-> row \o taken(matches(row)[m])]
        F[r \in 0..Len(left.rows)] ==
            IF r = 0 THEN <<>> ELSE F[r - 1] \o joined(left.rows[r])
    IN  [columns |-> left.columns \o take, rows |-> F[Len(left.rows)]]

\* pd.to_numeric(errors="coerce"), by value: text that is no number is NaN
ToNumericCell(c) ==
    IF c = NA THEN NA
    ELSE IF IsDigits(c) THEN NatText(NatOf(c))
    ELSE IF IsDecimalText(c) THEN
        (IF IsFractional(c) THEN NatText(NatOf(IntPart(c))) \o <<".">> \o TrimZeros(FracPart(c))
         ELSE NatText(NatOf(IntPart(c))))
    ELSE NA

\* .astype(str) of an object column: a missing value becomes the text "nan"
AsStr(c) == IF c = NA THEN <<"n", "a", "n">> ELSE c

\* .str.replace("-", "", regex=False)
NoDash(c) == SelectSeq(c, LAMBDA ch : ch # "-")

DimCustomerCols ==
    <<"cst_id", "cst_key", "cst_firstname", "cst_lastname", "cst_marital_status", "cst_gndr",
      "cst_create_date", "CID", "BDATE", "GEN", "CNTRY">>

\* build_gold_dim_customer raises KeyError: the column CID of the customer
\* frame is made in the branch of cst_az12 only (line 320), and the merge of
\* loc names it as its left key (line 338)
DimCustomerKeyError(az, loc) == az = NoFrame /\ loc # NoFrame

\* build_gold_dim_customer (az, loc: a frame, or NoFrame), where it returns
BuildGoldDimCustomer(cst_info, az, loc) ==
    LET c1 == MapCol(MapCol(cst_info, "cst_id", ToNumericCell), "cst_key", AsStr)
        c3 == IF az # NoFrame
              THEN LET a1 == MapCol(MapCol(MapCol(az, "CID", AsStr), "BDATE", ToNumericCell),
                                    "GEN", AsStr)
                       a2 == AddCol(a1, "CID_norm", LAMBDA row : NoDash(row[ColIdx(a1, "CID")]))
                       c2 == AddCol(c1, "CID", LAMBDA row : NoDash(row[ColIdx(c1, "cst_key")]))
                   IN  LeftMerge(c2, a2, "CID", "CID_norm", <<"BDATE", "GEN">>)
              ELSE AddCol(AddCol(c1, "BDATE", LAMBDA row : NA), "GEN", LAMBDA row : NA)
        c4 == IF loc # NoFrame
              THEN LET l1 == MapCol(loc, "CID", AsStr)
                       l2 == AddCol(l1, "CID_norm", LAMBDA row : NoDash(row[ColIdx(l1, "CID")]))
                   IN  LeftMerge(c3, l2, "CID", "CID_norm", <<"CNTRY">>)
              ELSE AddCol(c3, "CNTRY", LAMBDA row : NA)
    IN  SelectCols(DropDuplicates(EnsureCols(c4, DimCustomerCols), <<"cst_id">>), DimCustomerCols)

DimProductCols ==
    <<"prd_id", "prd_key", "prd_nm", "prd_cost", "prd_line", "prd_start_dt", "prd_end_dt", "ID",
      "CAT", "SUBCAT", "MAINTENANCE">>

\* build_gold_dim_product (px_cat: a frame, or NoFrame)
BuildGoldDimProduct(prd_info, px_cat) ==
    LET p1 == MapCol(prd_info, "prd_key", AsStr)
        p2 == AddCol(p1, "prd_id", LAMBDA row : row[ColIdx(p1, "prd_key")])
        p3 == IF px_cat # NoFrame
              THEN LeftMerge(p2, MapCol(px_cat, "ID", AsStr), "prd_key", "ID", PxCols)
              ELSE AddCol(AddCol(AddCol(AddCol(p2, "ID", LAMBDA row : row[ColIdx(p2, "prd_key")]),
                                        "CAT", LAMBDA row : NA),
                                 "SUBCAT", LAMBDA row : NA),
                          "MAINTENANCE", LAMBDA row : NA)
    IN  SelectCols(DropDuplicates(EnsureCols(p3, DimProductCols), <<"prd_id">>), DimProductCols)

\* build_gold_dim_location
BuildGoldDimLocation(loc) ==
    SelectCols(EnsureCols(DropDuplicates(MapCol(loc, "CID", AsStr), <<"CID">>), LocCols), LocCols)

\* build_gold_fact_sales
BuildGoldFactSales(sales) ==
    SelectCols(DropDuplicates(EnsureCols(sales, SalesCols), <<"sls_ord_num", "sls_prd_key">>),
               SalesCols)

(***************************************************************************)
(* upstream_gold.py: main, the build of the marts                          *)
(***************************************************************************)
MARTS ==
    <<"gold_dim_customer", "gold_dim_product", "gold_dim_location", "gold_fact_sales",
      "gold_agg_exec_kpis", "gold_agg_product_performance", "gold_agg_geo_performance",
      "gold_wide_sales_enriched">>

ExecKpiCols ==
    <<"period", "customer_segment", "Conversion Rate", "Customer Lifetime Value", "Return Rate",
      "Average Order Value", "Customer Retention Rate">>

ProductPerfCols ==
    <<"prd_id", "period", "prd_line", "CAT", "SUBCAT", "Total_Sales", "Total_Quantity_Sold",
      "Return Rate">>

GeoPerfCols == <<"CNTRY", "CAT", "period", "Total_Sales", "Total_Quantity_Sold">>

WideSalesCols ==
    <<"sls_ord_num", "sls_prd_key", "sls_cust_id", "sls_sales", "sls_quantity", "sls_price",
      "cst_id", "cst_key", "cst_marital_status", "cst_gndr", "BDATE", "GEN", "CNTRY", "prd_id",
      "prd_key", "prd_nm", "prd_line", "CAT", "SUBCAT">>

\* list(<mart>.columns): every builder returns its out_cols
MartSchema(k) ==
    CASE k = 1 -> DimCustomerCols
      [] k = 2 -> DimProductCols
      [] k = 3 -> LocCols
      [] k = 4 -> SalesCols
      [] k = 5 -> ExecKpiCols
      [] k = 6 -> ProductPerfCols
      [] k = 7 -> GeoPerfCols
      [] k = 8 -> WideSalesCols

\* the tables that must not be None for block k to build its mart
MartNeeds(k) ==
    CASE k = 1 -> {"cst_info.csv"}
      [] k = 2 -> {"prd_info.csv"}
      [] k = 3 -> {"LOC_A101.csv"}
      [] k = 4 -> {"sales_details.csv"}
      [] k = 5 -> {"sales_details.csv", "cst_info.csv"}
      [] k = 6 -> {"sales_details.csv", "prd_info.csv"}
      [] k = 7 -> {"sales_details.csv", "LOC_A101.csv", "prd_info.csv"}
      [] k = 8 -> {"sales_details.csv", "cst_info.csv", "prd_info.csv", "LOC_A101.csv"}

\* the table the else-branch of block k names in its error (blocks 1 to 4)
MartRequires(k) == CHOOSE n \in MartNeeds(k) : TRUE

Loaded(tables) == {n \in DOMAIN tables : tables[n] # NoFrame}

\* the frame block k writes, for the dimensions and the fact table
BuildMart(k, tables) ==
    CASE k = 1 -> BuildGoldDimCustomer(tables["cst_info.csv"], tables["CST_AZ12.csv"],
                                       tables["LOC_A101.csv"])
      [] k = 2 -> BuildGoldDimProduct(tables["prd_info.csv"], tables["PX_CAT_G1V2.csv"])
      [] k = 3 -> BuildGoldDimLocation(tables["LOC_A101.csv"])
      [] k = 4 -> BuildGoldFactSales(tables["sales_details.csv"])

\* the blocks whose frame is modelled row by row
RowMarts == 1..4

\* the entries of errors
RequiredErrorNamingMart(k) == <<"required", MARTS[k], MARTS[k]>>

RequiredError(k) == <<"required", MartRequires(k), MARTS[k]>>

UnhandledError(type, about) == <<"UNHANDLED gold build failure", type, about>>

\* lines 965-968
BuiltNote == <<"Gold marts built based on Silver data, where available">>

\* Largest number of data rows of a Silver table
MaxGoldRows == 2

SalesRow(ord, prd, cust) ==
    <<ord, prd, cust, <<"5">>, <<"1">>, <<"5">>, <<"2", "0", "2", "4", "0", "1", "0", "5">>,
      <<>>, <<>> >>

CstRow(id, key, first, last) == <<id, key, first, last, <<"S">>, <<"M">>, <<>> >>

\* what the files of a Silver data directory may hold
GoldSalesRows ==
    { SalesRow(<<"1">>, <<"P">>, <<"7">>), SalesRow(<<"2">>, <<"Q">>, <<"9">>),
      SalesRow(<<"3">>, <<"P">>, <<>>) }

GoldCstRows ==
    << CstRow(<<"7">>, <<"A", "-", "7">>, <<"J", "o">>, <<"D", "o", "e">>),
       CstRow(<<"7">>, <<"A", "8">>, <<"K", "i">>, <<"R", "o", "e">>) >>

\* a well-formed file of each name
GoldOkFile(n) ==
    CASE n = "sales_details.csv" -> CsvFile(SalesCols, <<SalesRow(<<"1">>, <<"P">>, <<"7">>)>>)
      [] n = "prd_info.csv" ->
            CsvFile(PrdCols, << <<<<"P">>, <<"n">>, <<"1">>, <<"R">>, <<>>, <<>> >> >>)
      [] n = "PX_CAT_G1V2.csv" -> CsvFile(PxCols, << <<<<"P">>, <<"c">>, <<"s">>, <<"Y">> >> >>)
      [] n = "cst_info.csv" -> CsvFile(CstCols, GoldCstRows)
      [] n = "CST_AZ12.csv" ->
            CsvFile(AzCols, << <<<<"A", "7">>, <<"1", "9", "9", "0">>, <<"F">> >> >>)
      [] n = "LOC_A101.csv" -> CsvFile(LocCols, << <<<<"A", "-", "7">>, <<"D", "E">> >> >>)

\* the same file without its last required column
GoldShortFile(n) ==
    LET f == GoldOkFile(n)
        w == Len(f.header) - 1
    IN  CsvFile(SubSeq(f.header, 1, w), [r \in 1..Len(f.rows) |-> SubSeq(f.rows[r], 1, w)])

GoldFileNames == {GoldFiles[i] : i \in DOMAIN GoldFiles}

\* Silver data directories: any subset of the files, well formed; all files
\* with one of them short of a column or empty; all files with any sales rows
GoldSilverDirs ==
    {[n \in present |-> GoldOkFile(n)] : present \in SUBSET GoldFileNames}
    \cup {[n \in GoldFileNames |-> IF n = bad THEN GoldShortFile(n) ELSE GoldOkFile(n)] :
            bad \in GoldFileNames}
    \cup {[n \in GoldFileNames \ {gone} |->
            IF n = "LOC_A101.csv" THEN GoldShortFile(n) ELSE GoldOkFile(n)] :
            gone \in {"PX_CAT_G1V2.csv", "cst_info.csv"}}
    \cup {[n \in GoldFileNames |-> IF n = "cst_info.csv" THEN EmptyFile ELSE GoldOkFile(n)]}
    \cup {[n \in GoldFileNames |->
            IF n = "sales_details.csv" THEN CsvFile(SalesCols, rows) ELSE GoldOkFile(n)] :
            rows \in UNION {[1..len -> GoldSalesRows] : len \in 0..MaxGoldRows}}

\* lines 743-748: load_csv of the six files
LoadTables(dir) ==
    [n \in GoldFileNames |-> IF n \in DOMAIN dir THEN ReadCsv(dir[n]) ELSE NoFrame]

Unreadable(dir) == {n \in DOMAIN dir : dir[n].kind # "csv"}

\* lines 750-764: the tables, in order, that lack a required column
Invalid(tables) ==
    SelectSeq(GoldFiles, LAMBDA n :
        tables[n] # NoFrame /\ MissingColumns(tables[n], REQUIRED_SCHEMAS[n]) # <<>>)

\* lines 750-764 raise nothing
ValidationPasses(tables) == Invalid(tables) = <<>>

\* lines 743-764: the tables are loaded and pass validation
GoldLoad ==
    /\ BuildOnly
    /\ g_pc = "build"
    /\ \E dir \in GoldSilverDirs :
        /\ Unreadable(dir) = {}
        /\ ValidationPasses(LoadTables(dir))
        /\ g_tables' = LoadTables(dir)
    /\ g_pc' = "marts"
    /\ g_mart' = 1
    /\ UNCHANGED <<g_notes, g_error, g_outputs, g_errors, gold_data, g_meta, g_html>>

\* lines 743-748 raise (pd.read_csv on a file it cannot parse): caught at 969
GoldLoadRaises ==
    /\ BuildOnly
    /\ g_pc = "build"
    /\ \E dir \in GoldSilverDirs :
        /\ Unreadable(dir) # {}
        /\ LET n == CHOOSE i \in Unreadable(dir) :
                        \A j \in Unreadable(dir) :
                            (CHOOSE a \in DOMAIN GoldFiles : GoldFiles[a] = i)
                                <= (CHOOSE b \in DOMAIN GoldFiles : GoldFiles[b] = j)
           IN  g_errors' = Append(g_errors, UnhandledError(ReadCsvError(dir[n]), n))
    /\ g_pc' = "finish"
    /\ UNCHANGED <<g_notes, g_error, g_tables, g_mart, g_outputs, gold_data, g_meta, g_html>>

\* line 764 raises ValueError for the first table short of a column: caught at 969
GoldValidateRaises ==
    /\ BuildOnly
    /\ g_pc = "build"
    /\ \E dir \in GoldSilverDirs :
        /\ Unreadable(dir) = {}
        /\ ~ValidationPasses(LoadTables(dir))
        /\ g_tables' = LoadTables(dir)
        /\ g_errors' = Append(g_errors, UnhandledError("ValueError", Invalid(LoadTables(dir))[1]))
    /\ g_pc' = "finish"
    /\ UNCHANGED <<g_notes, g_error, g_mart, g_outputs, gold_data, g_meta, g_html>>

\* the builder of block k raises on these tables
BuilderRaises(k, tables) ==
    k = 1 /\ DimCustomerKeyError(tables["CST_AZ12.csv"], tables["LOC_A101.csv"])

\* the exceptions a mart block may raise: its builder raises; the write or the
\* checksum read fails for good (OSError after the retries); a merge of an
\* aggregate refuses its key columns
MartErrors(k, tables) ==
    IF BuilderRaises(k, tables) THEN {"KeyError"}
    ELSE IF k \in RowMarts THEN {"OSError"} ELSE {"OSError", "ValueError"}

\* block k of lines 766-964: the mart is built, written and listed in outputs
GoldMartBuilt ==
    /\ BuildOnly
    /\ g_pc = "marts"
    /\ g_mart <= Len(MARTS)
    /\ MartNeeds(g_mart) \subseteq Loaded(g_tables)
    /\ ~BuilderRaises(g_mart, g_tables)
    /\ g_outputs' = Append(g_outputs, [name |-> MARTS[g_mart], schema |-> MartSchema(g_mart)])
    /\ gold_data' = IF g_mart \in RowMarts
                        THEN [m \in DOMAIN gold_data \cup {MARTS[g_mart]} |->
                                IF m = MARTS[g_mart] THEN BuildMart(g_mart, g_tables)
                                ELSE gold_data[m]]
                        ELSE gold_data
    /\ g_mart' = g_mart + 1
    /\ UNCHANGED <<g_pc, g_notes, g_error, g_tables, g_errors, g_meta, g_html>>

\* block k is passed over: a table it needs is None; blocks 1 to 4 record an error
GoldMartSkipped ==
    /\ BuildOnly
    /\ g_pc = "marts"
    /\ g_mart <= Len(MARTS)
    /\ ~(MartNeeds(g_mart) \subseteq Loaded(g_tables))
    /\ g_errors' = IF g_mart <= 4 THEN Append(g_errors, RequiredError(g_mart)) ELSE g_errors
    /\ g_mart' = g_mart + 1
    /\ UNCHANGED <<g_pc, g_notes, g_error, g_tables, g_outputs, gold_data, g_meta, g_html>>

\* block k raises: caught at line 969, the blocks after it are not run
GoldMartRaises ==
    /\ BuildOnly
    /\ g_pc = "marts"
    /\ g_mart <= Len(MARTS)
    /\ MartNeeds(g_mart) \subseteq Loaded(g_tables)
    /\ \E e \in MartErrors(g_mart, g_tables) :
        g_errors' = Append(g_errors, UnhandledError(e, MARTS[g_mart]))
    /\ g_pc' = "finish"
    /\ UNCHANGED <<g_notes, g_error, g_tables, g_mart, g_outputs, gold_data, g_meta, g_html>>

\* lines 965-968: every block has run
GoldBuildDone ==
    /\ BuildOnly
    /\ g_pc = "marts"
    /\ g_mart = Len(MARTS) + 1
    /\ g_notes' = Append(g_notes, BuiltNote)
    /\ g_pc' = "finish"
    /\ UNCHANGED <<g_error, g_tables, g_mart, g_outputs, g_errors, gold_data, g_meta, g_html>>

\* Mutant of StatusOf: the status does not look at errors
StatusOfSuccess(errors) == "success"

\* line 977
StatusOf(errors) == IF errors = <<>> THEN "success" ELSE "partial"

\* lines 978-1007: meta
GoldMeta ==
    [run_id |-> gold_run_id, status |-> StatusOf(g_errors), silver_run_id |-> g_silver_run_id,
     suffix |-> g_suffix, outputs |-> g_outputs, errors |-> g_errors, notes |-> g_notes]

\* lines 975-1028: metadata.yaml and the report are written, main returns
GoldFinish ==
    /\ BuildOnly
    /\ g_pc = "finish"
    /\ g_meta' = Append(g_meta, GoldMeta)
    /\ g_html' = Append(g_html, [run_id |-> gold_run_id, status |-> StatusOf(g_errors)])
    /\ g_pc' = "returned"
    /\ UNCHANGED <<g_notes, g_error, g_tables, g_mart, g_outputs, g_errors, gold_data>>

\* line 1008 or 1009 raises OSError after the retries: it leaves main
GoldFinishRaises ==
    /\ BuildOnly
    /\ g_pc = "finish"
    /\ \E written \in BOOLEAN :
        /\ g_meta' = IF written THEN Append(g_meta, GoldMeta) ELSE g_meta
    /\ g_error' = "OSError"
    /\ g_pc' = "raised"
    /\ UNCHANGED <<g_notes, g_tables, g_mart, g_outputs, g_errors, gold_data, g_html>>

GoldBuildNext ==
    \/ GoldLoad
    \/ GoldLoadRaises
    \/ GoldValidateRaises
    \/ GoldMartBuilt
    \/ GoldMartSkipped
    \/ GoldMartRaises
    \/ GoldBuildDone
    \/ GoldFinish
    \/ GoldFinishRaises

(***************************************************************************)
(* upstream_gold.py: build_gold_agg_exec_kpis                              *)
(***************************************************************************)
\* the float values inf and -inf as pd.read_csv reads them, and nan
InfText == <<"i", "n", "f">>

NegInfText == <<"-", "i", "n", "f">>

NanText == <<"n", "a", "n">>

\* int_to_date(x)[:7] of add_period_month: the month of a yyyymmdd number
PeriodCell(c) ==
    IF c # NA /\ IsDigits(c) /\ NatOf(c) > 0
        THEN Pad(NatOf(c) \div 10000, 4) \o <<"-">> \o Pad((NatOf(c) \div 100) % 100, 2)
        ELSE NA

\* cust["customer_segment"] = cust["cst_marital_status"].fillna("Unknown")
SegmentCell(c) == IF c = NA THEN <<"U", "n", "k", "n", "o", "w", "n">> ELSE c

\* lines 450-464: the sales with their period and the segment of their customer
ExecKpiJoined(fact_sales, dim_customer) ==
    LET s1 == AddCol(fact_sales, "period",
                     LAMBDA row : PeriodCell(row[ColIdx(fact_sales, "sls_order_dt")]))
        c1 == MapCol(dim_customer, "cst_id", ToNumericCell)
        c2 == AddCol(c1, "customer_segment",
                     LAMBDA row : SegmentCell(row[ColIdx(c1, "cst_marital_status")]))
    IN  LeftMerge(MapCol(s1, "sls_cust_id", ToNumericCell), c2, "sls_cust_id", "cst_id",
                  <<"cst_id", "customer_segment">>)

\* the one element of a set of one element
The(S) == CHOOSE x \in S : TRUE

\* the order of group keys: by value, missing last
CellLess(a, b) == a # NA /\ (b = NA \/ StrLess(a, b))

KeyLess(a, b) == CellLess(a[1], b[1]) \/ (a[1] = b[1] /\ CellLess(a[2], b[2]))

RECURSIVE SortedKeys(_)
SortedKeys(K) ==
    IF K = {} THEN <<>>
    ELSE The({<<m>> \o SortedKeys(K \ {m}) :
                m \in {CHOOSE x \in K : \A y \in K : y = x \/ KeyLess(x, y)}})

\* Series.sum() of a float column: missing values are skipped
RECURSIVE SumCells(_)
SumCells(cells) ==
    IF cells = <<>> THEN NatText(0)
    ELSE LET rest == SumCells(Tail(cells))
             c == Head(cells)
         IN  IF c = NA THEN rest
             ELSE IF rest = NanText THEN NanText
             ELSE IF c \in {InfText, NegInfText}
                THEN (IF rest \in {InfText, NegInfText} /\ rest # c THEN NanText ELSE c)
             ELSE IF rest \in {InfText, NegInfText} THEN rest
             ELSE NatText(NatOf(c) + NatOf(rest))

\* Series.nunique(): the number of distinct values, missing ones left out
NUnique(cells) == Cardinality({cells[i] : i \in DOMAIN cells} \ {NA})

\* groupby(["period", "customer_segment"], dropna=False).agg(...) of the joined
\* sales: one row per key, missing keys kept
GroupedKpis(j) ==
    LET key(row) == <<row[ColIdx(j, "period")], row[ColIdx(j, "customer_segment")]>>
        col(grp, c) == [r \in 1..Len(grp) |-> grp[r][ColIdx(j, c)]]
        agg(k, grp) ==
            <<k[1], k[2], SumCells(col(grp, "sls_sales")),
              NatText(NUnique(col(grp, "sls_ord_num"))),
              NatText(NUnique(col(grp, "sls_cust_id")))>>
    IN  The({ [g \in 1..Len(keys) |->
                The({agg(keys[g], grp) :
                        grp \in {SelectSeq(j.rows, LAMBDA row : key(row) = keys[g])}})] :
              keys \in {SortedKeys({key(j.rows[r]) : r \in DOMAIN j.rows})} })

\* lines 450-475: agg
ExecKpiAgg(fact_sales, dim_customer) ==
    [columns |-> <<"period", "customer_segment", "total_sales", "order_count", "customer_count">>,
     rows |-> The({GroupedKpis(j) : j \in {ExecKpiJoined(fact_sales, dim_customer)}})]

\* float(a) / float(b)
FloatDiv(a, b) == IF a \in {InfText, NegInfText, NanText} THEN a ELSE <<"ratio", NatOf(a), NatOf(b)>>

\* Mutant of SafeDiv: the division is made whatever the denominator
SafeDivUnguarded(a, b) ==
    IF NatOf(b) = 0
        THEN (IF a \in {NegInfText, NanText} THEN a ELSE IF NatOf(a) = 0 THEN NanText ELSE InfText)
        ELSE FloatDiv(a, b)

\* safe_div, lines 465-466
SafeDiv(a, b) == IF NatOf(b) # 0 THEN FloatDiv(a, b) ELSE NA

\* build_gold_agg_exec_kpis
BuildGoldAggExecKpis(fact_sales, dim_customer) ==
    [columns |-> ExecKpiCols,
     rows |-> The({ [g \in 1..Len(agg.rows) |->
                        <<agg.rows[g][1], agg.rows[g][2], NA,
                          SafeDiv(agg.rows[g][3], agg.rows[g][5]), NA,
                          SafeDiv(agg.rows[g][3], agg.rows[g][4]), NA>>] :
                    agg \in {ExecKpiAgg(fact_sales, dim_customer)} })]

(***************************************************************************)
(* The mart builders applied to tables of their own                        *)
(***************************************************************************)
\* Largest number of rows of a table given to a builder
MaxMartRows == 2

\* the tables of at most MaxMartRows rows out of a set of rows
FramesOf(cols, rowset) ==
    {[columns |-> cols, rows |-> rows] : rows \in UNION {[1..n -> rowset] : n \in 0..MaxMartRows}}

Jan == <<"2", "0", "2", "4", "0", "1", "0", "5">>

\* sales rows: order number, product key, customer id, amount, order date
MartSalesRow(ord, prd, cust, amount, dt) ==
    <<ord, prd, cust, amount, <<"1">>, <<"5">>, dt, NA, NA>>

MartSalesRows ==
    { MartSalesRow(<<"1">>, <<"P">>, <<"7">>, <<"5">>, Jan),
      MartSalesRow(<<"1">>, <<"P">>, <<"9">>, <<"3">>, Jan),
      MartSalesRow(<<"2">>, <<"P">>, <<"7">>, InfText, Jan),
      MartSalesRow(NA, <<"Q">>, NA, <<"4">>, NA) }

\* customer rows: id, natural key, marital status
MartCstRow(id, key, marital) ==
    <<id, key, <<"J", "o">>, <<"D", "o", "e">>, marital, <<"M">>, NA>>

MartCstRows ==
    { MartCstRow(<<"7">>, <<"A", "-", "7">>, <<"S">>),
      MartCstRow(<<"7">>, <<"a", "7">>, <<"M">>),
      MartCstRow(<<"8">>, <<"B", "8">>, NA) }

MartAzRows ==
    { <<<<"A", "7">>, <<"1", "9", "9", "0">>, <<"F">>>>,
      <<<<"a", "-", "7">>, <<"1", "9", "8", "0">>, <<"M">>>> }

MartLocRows ==
    { <<<<"A", "7">>, <<"D", "E">>>>,
      <<<<"A", "-", "7">>, <<"U", "S">>>>,
      <<<<"b", "8">>, <<"F", "R">>>> }

MartPrdRows ==
    { <<<<"P">>, <<"n">>, <<"1">>, <<"R">>, NA, NA>>,
      <<<<"P">>, <<"m">>, <<"2">>, <<"S">>, NA, NA>>,
      <<<<"Q">>, <<"o">>, <<"3">>, <<"R">>, NA, NA>> }

MartPxRows == { <<<<"P">>, <<"c">>, <<"s">>, <<"Y">>>> }

MartStart ==
    /\ k_fn = "none"
    /\ k_in = <<>>
    /\ k_out = [columns |-> <<>>, rows |-> <<>>]

\* build_gold_dim_customer is applied
ApplyDimCustomer ==
    /\ MartOnly
    /\ k_fn = "none"
    /\ k_fn' = "dim_customer"
    /\ \E cst \in FramesOf(CstCols, MartCstRows),
          az \in {NoFrame} \cup FramesOf(AzCols, MartAzRows),
          loc \in {NoFrame} \cup FramesOf(LocCols, MartLocRows) :
        /\ ~DimCustomerKeyError(az, loc)
        /\ k_in' = <<cst, az, loc>>
        /\ k_out' = BuildGoldDimCustomer(cst, az, loc)

\* build_gold_dim_product is applied
ApplyDimProduct ==
    /\ MartOnly
    /\ k_fn = "none"
    /\ k_fn' = "dim_product"
    /\ \E prd \in FramesOf(PrdCols, MartPrdRows),
          px \in {NoFrame} \cup FramesOf(PxCols, MartPxRows) :
        /\ k_in' = <<prd, px>>
        /\ k_out' = BuildGoldDimProduct(prd, px)

\* build_gold_dim_location is applied
ApplyDimLocation ==
    /\ MartOnly
    /\ k_fn = "none"
    /\ k_fn' = "dim_location"
    /\ \E loc \in FramesOf(LocCols, MartLocRows) :
        /\ k_in' = <<loc>>
        /\ k_out' = BuildGoldDimLocation(loc)

\* build_gold_fact_sales is applied
ApplyFactSales ==
    /\ MartOnly
    /\ k_fn = "none"
    /\ k_fn' = "fact_sales"
    /\ \E sales \in FramesOf(SalesCols, MartSalesRows) :
        /\ k_in' = <<sales>>
        /\ k_out' = BuildGoldFactSales(sales)

\* build_gold_agg_exec_kpis is applied to a fact table and a customer
\* dimension, as block 5 of main passes them
ApplyExecKpis ==
    /\ MartOnly
    /\ k_fn = "none"
    /\ k_fn' = "exec_kpis"
    /\ \E sales \in FramesOf(SalesCols, MartSalesRows), cst \in FramesOf(CstCols, MartCstRows) :
        \E fact \in {BuildGoldFactSales(sales)}, dim \in {BuildGoldDimCustomer(cst, NoFrame, NoFrame)} :
            /\ k_in' = <<fact, dim>>
            /\ k_out' = BuildGoldAggExecKpis(fact, dim)

MartNext ==
    \/ ApplyDimCustomer
    \/ ApplyDimProduct
    \/ ApplyDimLocation
    \/ ApplyFactSales
    \/ ApplyExecKpis

(***************************************************************************)
(* bronze_layer.py: run_bronze                                             *)
(***************************************************************************)
\* a run directory whose name is no run id of the layered form
OrchStyleRunId == GenerateRunId(CHOOSE n \in Nows : n.Y = 2024, <<"A", "F", "Z", "A">>)

\* Largest number of calls of run_bronze
MaxBronzeRuns == 2

\* _sha256_file: the digest stands for the bytes it was computed from
Sha256(file) == <<"sha256", file>>

\* the file names that match "*.csv"
CsvNames == {"cust.csv", "sales.csv"}

\* Path.glob("*.csv") over a raw directory
RawCsv(dir) == DOMAIN dir \cap CsvNames

RawTable(cell) == CsvFile(<<"id">>, << <<cell>> >>)

\* what raw/source_crm and raw/source_erp may hold when run_bronze is called
RawCrmDirs ==
    {[n \in {"notes.txt"} |-> EmptyFile]}
    \cup {[n \in {"cust.csv", "notes.txt"} |-> IF n = "cust.csv" THEN f ELSE EmptyFile] :
            f \in {RawTable(<<"1">>), EmptyFile, BinaryFile}}

RawErpDirs ==
    {[n \in present |-> IF n = "cust.csv" THEN RawTable(<<"2">>) ELSE RawTable(<<"3">>)] :
        present \in SUBSET {"cust.csv", "sales.csv"}}

\* the run ids run_pipeline may pass on
BronzeRunIds == {MkRunId(TsA, SufA), OrchStyleRunId}

NoDir == [n \in {} |-> EmptyFile]

BronzeStart ==
    /\ b_pc = "idle"
    /\ b_run_id = NoRunId
    /\ b_raw = [crm |-> NoDir, erp |-> NoDir]
    /\ b_crm_meta = <<>>
    /\ b_erp_meta = <<>>
    /\ b_files = <<>>
    /\ b_calls = 0
    /\ b_error = None

\* the Bronze data directory of a run (no files when it does not exist)
BronzeData(root, id) == IF id \in DOMAIN root THEN root[id] ELSE NoDir

\* _copy_raw_to_bronze, lines 76-80: the data directory after the copy
CopyRawToBronze(raw_dir, data) ==
    [n \in DOMAIN data \cup RawCsv(raw_dir) |-> IF n \in RawCsv(raw_dir) THEN raw_dir[n] ELSE data[n]]

\* lines 81-84: the metadata of the copy, checksum taken from the destination
CopyMeta(raw_dir, data) == [n \in RawCsv(raw_dir) |-> [checksum |-> Sha256(data[n])]]

PutDir(root, id, data) == [i \in DOMAIN root \cup {id} |-> IF i = id THEN data ELSE root[i]]

\* run_bronze is called (lines 100-106)
RunBronzeBegin ==
    /\ BronzeOnly
    /\ b_pc \in {"idle", "returned", "raised"}
    /\ b_calls < MaxBronzeRuns
    /\ b_calls' = b_calls + 1
    /\ \E id \in BronzeRunIds, crm \in RawCrmDirs, erp \in RawErpDirs :
        /\ b_run_id' = id
        /\ b_raw' = [crm |-> crm, erp |-> erp]
    /\ b_crm_meta' = <<>>
    /\ b_erp_meta' = <<>>
    /\ b_error' = None
    /\ b_pc' = "crm"
    /\ UNCHANGED <<bronze_root, b_files>>

\* line 108: crm_meta = _copy_raw_to_bronze(raw_crm, bronze_data)
RunBronzeCopyCrm ==
    /\ BronzeOnly
    /\ b_pc = "crm"
    /\ LET data == CopyRawToBronze(b_raw.crm, BronzeData(bronze_root, b_run_id)) IN
        /\ bronze_root' = PutDir(bronze_root, b_run_id, data)
        /\ b_crm_meta' = CopyMeta(b_raw.crm, data)
    /\ b_pc' = "erp"
    /\ UNCHANGED <<b_run_id, b_raw, b_erp_meta, b_files, b_calls, b_error>>

\* line 109: erp_meta = _copy_raw_to_bronze(raw_erp, bronze_data)
RunBronzeCopyErp ==
    /\ BronzeOnly
    /\ b_pc = "erp"
    /\ LET data == CopyRawToBronze(b_raw.erp, BronzeData(bronze_root, b_run_id)) IN
        /\ bronze_root' = PutDir(bronze_root, b_run_id, data)
        /\ b_erp_meta' = CopyMeta(b_raw.erp, data)
    /\ b_pc' = "report"
    /\ UNCHANGED <<b_run_id, b_raw, b_crm_meta, b_files, b_calls, b_error>>

PutFile(files, id, name, content) ==
    [k \in DOMAIN files \cup {<<id, name>>} |-> IF k = <<id, name>> THEN content ELSE files[k]]

\* the files the report loop opens, line 121
ReportNames == DOMAIN b_crm_meta \cup DOMAIN b_erp_meta

\* line 126: sum(1 for _ in reader) - 1
RowCount(file) == IF file.kind = "csv" THEN Len(file.rows) ELSE 0 - 1

\* lines 124-126 raise UnicodeDecodeError on bytes that are not UTF-8
Undecodable == {n \in ReportNames : bronze_root[b_run_id][n].kind = "binary"}

\* lines 111-131: bronze_metadata.yaml and bronze_report.md are written
RunBronzeReport ==
    /\ BronzeOnly
    /\ b_pc = "report"
    /\ Undecodable = {}
    /\ b_files' =
        PutFile(PutFile(b_files, b_run_id, "bronze_metadata.yaml",
                        [crm |-> b_crm_meta, erp |-> b_erp_meta]),
                b_run_id, "bronze_report.md",
                [n \in ReportNames |-> RowCount(bronze_root[b_run_id][n])])
    /\ b_pc' = "returned"
    /\ UNCHANGED <<bronze_root, b_run_id, b_raw, b_crm_meta, b_erp_meta, b_calls, b_error>>

\* lines 111-126: bronze_metadata.yaml is written, then the row count of a
\* file that does not decode raises; only FileNotFoundError is caught
RunBronzeReportRaises ==
    /\ BronzeOnly
    /\ b_pc = "report"
    /\ Undecodable # {}
    /\ b_files' = PutFile(b_files, b_run_id, "bronze_metadata.yaml",
                          [crm |-> b_crm_meta, erp |-> b_erp_meta])
    /\ b_error' = "UnicodeDecodeError"
    /\ b_pc' = "raised"
    /\ UNCHANGED <<bronze_root, b_run_id, b_raw, b_crm_meta, b_erp_meta, b_calls>>

BronzeNext ==
    \/ RunBronzeBegin
    \/ RunBronzeCopyCrm
    \/ RunBronzeCopyErp
    \/ RunBronzeReport
    \/ RunBronzeReportRaises

(***************************************************************************)
(* Runs that execute at the same time                                      *)
(***************************************************************************)
\* the operating-system processes that run a program of the pipeline
Runs == {1, 2}

\* the suffixes random.choices may return
ConcLetters == {<<"A", "F", "Z", "A">>, <<"Z", "Z", "A", "F">>}

\* upstream_silver.main: the cleaned table, metadata.yaml and the report
SilverWrites == <<"data/cst_info.csv", "data/metadata.yaml", "reports/elt_report.html">>

\* run_pipeline: the Bronze copy and the run manifest
PipelineWrites == <<"bronze/data/cust.csv", "_meta/run_manifest.yaml">>

ConcStart ==
    /\ c_pc = [p \in Runs |-> "idle"]
    /\ c_kind = [p \in Runs |-> None]
    /\ c_run_id = [p \in Runs |-> NoRunId]
    /\ c_todo = [p \in Runs |-> <<>>]
    /\ c_paths = <<>>

\* upstream_silver.main, lines 284-299, in process p: the run id is derived
\* from the Bronze run and the clock, the run folders are made
ConcSilverMain(p) ==
    /\ ConcOnly
    /\ c_pc[p] = "idle"
    /\ \E b \in MatchingRuns(DOMAIN bronze_root), now \in Nows :
        /\ c_run_id' = [c_run_id EXCEPT ![p] = DeriveRunId(b, now)]
        /\ silver_root' = silver_root \cup {DeriveRunId(b, now)}
    /\ c_kind' = [c_kind EXCEPT ![p] = "silver"]
    /\ c_todo' = [c_todo EXCEPT ![p] = SilverWrites]
    /\ c_pc' = [c_pc EXCEPT ![p] = "writing"]
    /\ UNCHANGED c_paths

\* run_pipeline, lines 143-145, in process p
ConcRunPipeline(p) ==
    /\ ConcOnly
    /\ c_pc[p] = "idle"
    /\ \E arg \in OrchArgs, now \in Nows, letters \in ConcLetters :
        c_run_id' = [c_run_id EXCEPT ![p] =
                        IF arg = NoRunId THEN GenerateRunId(now, letters) ELSE arg]
    /\ c_kind' = [c_kind EXCEPT ![p] = "pipeline"]
    /\ c_todo' = [c_todo EXCEPT ![p] = PipelineWrites]
    /\ c_pc' = [c_pc EXCEPT ![p] = "writing"]
    /\ UNCHANGED <<silver_root, c_paths>>

\* the artifact root of a program: SILVER_ROOT, or artifacts/runs
RootOf(kind) == IF kind = "silver" THEN "artifacts/silver" ELSE "artifacts/runs"

\* os.path.join(root, run_id, name) of the next file of process p
NextPath(p) == <<RootOf(c_kind[p]), c_run_id[p], Head(c_todo[p])>>

\* process p writes its next file
ConcWrite(p) ==
    /\ ConcOnly
    /\ c_pc[p] = "writing"
    /\ c_todo[p] # <<>>
    /\ c_paths' = [k \in DOMAIN c_paths \cup {NextPath(p)} |->
                    IF k = NextPath(p)
                        THEN (IF k \in DOMAIN c_paths THEN c_paths[k] ELSE {}) \cup {p}
                        ELSE c_paths[k]]
    /\ c_todo' = [c_todo EXCEPT ![p] = Tail(c_todo[p])]
    /\ UNCHANGED <<silver_root, c_pc, c_kind, c_run_id>>

\* process p returns
ConcReturn(p) ==
    /\ ConcOnly
    /\ c_pc[p] = "writing"
    /\ c_todo[p] = <<>>
    /\ c_pc' = [c_pc EXCEPT ![p] = "done"]
    /\ UNCHANGED <<silver_root, c_kind, c_run_id, c_todo, c_paths>>

ConcNext ==
    \E p \in Runs :
        \/ ConcSilverMain(p)
        \/ ConcRunPipeline(p)
        \/ ConcWrite(p)
        \/ ConcReturn(p)

(***************************************************************************)
(* dashboard/services/artifacts.py: artifact discovery                     *)
(***************************************************************************)
\* the names an artifact folder may hold
DashNames == {MkRunId(TsA, SufA), MkRunId(TsB, SufA), OrchStyleRunId}

\* what a name is: a plain file, a folder without the Silver data folder, or
\* a folder with it
EntryKinds == {"file", "dir", "data"}

NoEntries == [n \in {} |-> "file"]

\* a base path that does not exist
NoBase == [exists |-> FALSE, entries |-> NoEntries]

DashStart ==
    /\ d_pc = "setup"
    /\ d_runs = NoBase
    /\ d_silver = NoBase
    /\ d_result = <<>>

\* sorted(S, reverse=True) of a set of str
SortedDesc[S \in SUBSET DashNames] ==
    IF S = {} THEN <<>> ELSE <<StrMax(S)>> \o SortedDesc[S \ {StrMax(S)}]

\* Mutant of CollectRuns: every folder counts, with or without its data folder
CollectRunsEveryDir(base) ==
    IF ~base.exists THEN {}
    ELSE {n \in DOMAIN base.entries : base.entries[n] # "file"}

\* _collect_runs: the run ids of the folders that hold the Silver data folder
CollectRuns(base) ==
    IF ~base.exists THEN {}
    ELSE {n \in DOMAIN base.entries : base.entries[n] = "data"}

\* the RunLocation values of a layout, by run id descending
Located(ids, layout) ==
    [i \in 1..Len(SortedDesc[ids]) |-> [run_id |-> SortedDesc[ids][i], layout |-> layout]]

\* list_available_runs, lines 73-80
ListRuns(runs, silver) ==
    IF CollectRuns(runs) # {}
        THEN Located(CollectRuns(runs), "canonical")
        ELSE Located(CollectRuns(silver), "legacy")

AddEntry(base, n, kind) ==
    [exists |-> TRUE,
     entries |-> [x \in DOMAIN base.entries \cup {n} |-> IF x = n THEN kind ELSE base.entries[x]]]

\* a pipeline run leaves an entry under artifacts/runs
DashCanonicalEntry ==
    /\ DashOnly
    /\ d_pc = "setup"
    /\ \E n \in DashNames \ DOMAIN d_runs.entries, kind \in EntryKinds :
        d_runs' = AddEntry(d_runs, n, kind)
    /\ UNCHANGED <<d_pc, d_silver, d_result>>

\* a layer run leaves an entry under artifacts/silver
DashLegacyEntry ==
    /\ DashOnly
    /\ d_pc = "setup"
    /\ \E n \in DashNames \ DOMAIN d_silver.entries, kind \in EntryKinds :
        d_silver' = AddEntry(d_silver, n, kind)
    /\ UNCHANGED <<d_pc, d_runs, d_result>>

\* list_available_runs is called
ListAvailableRuns ==
    /\ DashOnly
    /\ d_pc = "setup"
    /\ d_result' = ListRuns(d_runs, d_silver)
    /\ d_pc' = "listed"
    /\ UNCHANGED <<d_runs, d_silver>>

DashNext ==
    \/ DashCanonicalEntry
    \/ DashLegacyEntry
    \/ ListAvailableRuns

(***************************************************************************)
(* The Bronze inputs and the specifications                                *)
(***************************************************************************)
CstHeader == <<"cst_id", "cst_gndr">>

\* data rows of the customer file: clean, a fractional id, an unparseable id,
\* a gender that is none of the known spellings
CstRows ==
    { << <<"7">>, <<" ", "M", "a", "l", "e", " ">> >>,
      << <<"1", ".", "5">>, <<"F">> >>,
      << <<"x">>, <<>> >>,
      << <<"8">>, <<"o">> >> }

SalesHeader == <<"quantity", "transaction_date">>

\* data rows of the sales file: clean, and one invalid in both columns
SalesRows ==
    { << <<" ", "2", " ">>, <<"2", "0", "2", "4", "-", "0", "1", "-", "0", "5">> >>,
      << <<"x">>, <<"2", "0", "2", "4", "-", "0", "2", "-", "3", "0">> >> }

TablesOf(header, rowset) ==
    {CsvFile(header, rows) : rows \in UNION {[1..n -> rowset] : n \in 0..MaxRows}}

CstFiles == TablesOf(CstHeader, CstRows) \cup {EmptyFile, BinaryFile}

SalesFiles == TablesOf(SalesHeader, SalesRows) \cup {EmptyFile, BinaryFile}

\* a Bronze data directory: the customer file under either spelling, the
\* sales file, and a file that is no CSV
BronzeDir(cstName, cst, sales) ==
    [n \in {cstName, "sales_transactions.csv", "notes.txt"} |->
        IF n = cstName THEN cst ELSE IF n = "sales_transactions.csv" THEN sales ELSE EmptyFile]

BronzeDirs ==
    {BronzeDir(n, c, s) : n \in {"cst_info.csv", "CST_INFO.CSV"}, c \in CstFiles, s \in SalesFiles}

\* one small Bronze data directory
SmallDir ==
    BronzeDir("cst_info.csv", CsvFile(CstHeader, << << <<"7">>, <<"F">> >> >>), EmptyFile)

\* the same directory with a customer id that is no whole number
SmallDirFractional ==
    BronzeDir("cst_info.csv", CsvFile(CstHeader, << << <<"1", ".", "5">>, <<"F">> >> >>), EmptyFile)

\* the artifact tree for the run-identity specification
TreeStartSmall ==
    /\ bronze_root = [n \in {MkRunId(TsA, SufA), MkRunId(TsB, SufB), OrchStyleRunId} |->
                        IF n = MkRunId(TsB, SufB) THEN SmallDirFractional ELSE SmallDir]
    /\ silver_root \in {{}, {OrchStyleRunId}}
    /\ gold_root = {}

\* the artifact tree for the Silver specification: one Bronze run, any directory
TreeStartSilver ==
    /\ \E d \in BronzeDirs : bronze_root = [n \in {MkRunId(TsA, SufA)} |-> d]
    /\ silver_root = {}
    /\ gold_root = {}

ProgramsStart ==
    OrchStart /\ RetryStart /\ SilverStart /\ LayerStart /\ GoldStart /\ BronzeStart /\ ConcStart
    /\ DashStart /\ MartStart /\ HashStart

Init == ProgramsStart /\ TreeStartSmall

Next == OrchNext

Spec == Init /\ [][Next]_vars

SpecRetry == Init /\ [][RetryNext]_vars

InitSilver == ProgramsStart /\ TreeStartSilver

NextSilver == SilverNext \/ LayerNext

SpecSilver == InitSilver /\ [][NextSilver]_vars

NextRunId == SilverNext \/ GoldNext

SpecRunId == Init /\ [][NextRunId]_vars

\* the artifact tree for the Gold specification: a Silver run of each kind of name
TreeStartGold ==
    /\ bronze_root = [n \in {MkRunId(TsA, SufA)} |-> SmallDir]
    /\ silver_root = {MkRunId(TsB, SufA), OrchStyleRunId}
    /\ gold_root = {}

InitGold == ProgramsStart /\ TreeStartGold

\* no run directory exists yet
TreeStartEmpty ==
    /\ bronze_root = <<>>
    /\ silver_root = {}
    /\ gold_root = {}

InitBronze == ProgramsStart /\ TreeStartEmpty

SpecBronze == InitBronze /\ [][BronzeNext]_vars

\* one Bronze run, no Silver and no Gold run
TreeStartConc ==
    /\ bronze_root = [n \in {MkRunId(TsA, SufA)} |-> SmallDir]
    /\ silver_root = {}
    /\ gold_root = {}

InitConc == ProgramsStart /\ TreeStartConc

SpecConc == InitConc /\ [][ConcNext]_vars

InitDash == ProgramsStart /\ TreeStartEmpty

SpecDash == InitDash /\ [][DashNext]_vars

InitMart == ProgramsStart /\ TreeStartEmpty

SpecMart == InitMart /\ [][MartNext]_vars

InitHash == ProgramsStart /\ TreeStartEmpty

SpecHash == InitHash /\ [][HashNext]_vars

NextGold == GoldNext \/ GoldBuildNext

SpecGold == InitGold /\ [][NextGold]_vars

(***************************************************************************)
(* Claims about the orchestrator (checked under Spec)                      *)
(***************************************************************************)
Finished == o_pc \in {"returned", "raised"}

\* C1: every invocation of run_pipeline, whatever its outcome, leaves
\* run_manifest.json and data_policy.json behind, the manifest carrying the
\* status map with the failure of the step that raised.
C1_ManifestWhateverOutcome ==
    Finished =>
        /\ "run_manifest.json" \in DOMAIN meta_files
        /\ "data_policy.json" \in DOMAIN meta_files
        /\ meta_files["run_manifest.json"].step_status = status

C3_WriteAllOrNothing ==
    r_action = "to_csv" =>
        /\ dest \in {Absent, FileOf(CsvLines(r_df))}
        /\ r_pc = "raised" => dest = Absent
        /\ r_pc = "returned" => dest = FileOf(CsvLines(r_df))

\* C4: the action is re-invoked only after an OSError-class error; an error
\* of any other class (ValueError, ...) ends with_retry in the invocation
\* that raised it: it propagates, nothing is invoked and nothing slept after.
C4_RetryOnlyTransient ==
    \A i \in 1..Len(r_outcomes) :
        /\ i > 1 => r_outcomes[i - 1] \in OSErrors
        /\ r_outcomes[i] \in OtherErrors =>
              /\ i = Len(r_outcomes)
              /\ r_pc = "raised"
              /\ r_error = r_outcomes[i]
              /\ Len(r_sleeps) = i - 1

\* C4 witness: a ValueError in the first of three allowed invocations
C4_Witness ==
    /\ r_attempts = 3
    /\ r_outcomes = <<"ValueError">>
    /\ r_pc = "raised"
    /\ r_sleeps = <<>>

\* C5: with attempts = n >= 1 the action is invoked at most n times; the
\* k-th failed invocation (k < n) is followed by a sleep of backoff_s * k and
\* the n-th by none; the first success ends the loop with no further
\* invocation; n failures re-raise the n-th error; while the loop runs the
\* number of invocations left strictly decreases, so it terminates.
C5_RetryBounded ==
    r_attempts >= 1 /\ r_pc # "idle" =>
        /\ Len(r_outcomes) <= r_attempts
        /\ Len(r_sleeps) <= r_attempts - 1
        /\ \A k \in 1..Len(r_sleeps) :
            /\ r_sleeps[k] = r_backoff * k
            /\ r_outcomes[k] # "ok"
        /\ \A i \in 1..Len(r_outcomes) :
              r_outcomes[i] = "ok" => i = Len(r_outcomes) /\ r_pc = "returned"
        /\ r_pc = "running" =>
              /\ r_attempt = Len(r_outcomes) + 1
              /\ r_attempt <= r_attempts
              /\ Len(r_sleeps) = Len(r_outcomes)
        /\ r_pc = "returned" =>
              /\ r_outcomes[Len(r_outcomes)] = "ok"
              /\ Len(r_sleeps) = Len(r_outcomes) - 1
        /\ r_pc = "raised" =>
              /\ r_error = r_outcomes[Len(r_outcomes)]
              /\ Len(r_sleeps) = Len(r_outcomes) - 1
        /\ (Len(r_outcomes) = r_attempts /\ r_outcomes[r_attempts] # "ok") =>
              /\ r_pc = "raised"
              /\ r_error = r_outcomes[r_attempts]

\* C5 witness: three transient failures of three: two sleeps, then the raise
C5_Witness ==
    /\ r_attempts = 3
    /\ r_backoff = IO_BACKOFF_MS
    /\ r_outcomes = <<"OSError", "PermissionError", "OSError">>
    /\ r_sleeps = <<500, 1000>>
    /\ r_pc = "raised"
    /\ r_error = "OSError"

(***************************************************************************)
(* Claims about the Silver layer (checked under SpecSilver)                *)
(***************************************************************************)
SilverSourceOf(f) == bronze_root[s_bronze_run_id][f]

LayerSourceOf(f) == bronze_root[l_run_id][f]

\* C9: every table the Silver layer cleaned (upstream_silver: recorded with
\* status SUCCESS; silver_layer: written and recorded) has as many rows as
\* the Bronze table it was read from, in the written file and in the rows_in
\* and rows_out recorded for it, in the running dict and in metadata.yaml.
C9_RowCountPreserved ==
    /\ \A f \in DOMAIN s_tables :
          s_tables[f].status = "SUCCESS" =>
              /\ s_tables[f].rows_out = s_tables[f].rows_in
              /\ s_tables[f].rows_in = Len(SilverSourceOf(f).rows)
              /\ s_out[f].kind = "csv"
              /\ Len(s_out[f].rows) = Len(SilverSourceOf(f).rows)
    /\ s_pc = "returned" =>
          \A f \in DOMAIN s_meta.tables :
              s_meta.tables[f].status = "SUCCESS" =>
                  s_meta.tables[f].rows_out = s_meta.tables[f].rows_in
    /\ \A f \in DOMAIN l_metadata :
          /\ l_out[f].kind = "csv"
          /\ Len(l_out[f].rows) = Len(LayerSourceOf(f).rows)

\* C9 witness: a two-row customer table was cleaned by upstream_silver, an
\* unparseable id was nullified, and both rows are in the output
C9_Witness ==
    \E f \in DOMAIN s_tables :
        /\ s_tables[f].status = "SUCCESS"
        /\ s_tables[f].rows_in = 2
        /\ \E r \in 1..2 :
            /\ SilverSourceOf(f).rows[r][1] = <<"x">>
            /\ s_out[f].rows[r][1] = <<>>

\* the CSV files of the Bronze data directory each implementation is to clean
SilverCsvNames == {n \in DOMAIN bronze_root[s_bronze_run_id] : EndsWithCsv(LowerName(n))}

LayerCsvNames == {n \in DOMAIN bronze_root[l_run_id] : GlobCsv(n)}

\* upstream_silver.main isolates a bad file: when it ends every CSV file is
\* recorded, a failed one as FAILED with its error, and metadata.yaml is written
SilverMainIsolatesBadFile ==
    s_pc \in {"returned", "raised"} /\ s_bronze_run_id \in DOMAIN bronze_root /\ s_run_id # NoRunId =>
        /\ s_pc = "returned"
        /\ DOMAIN s_tables = SilverCsvNames
        /\ DOMAIN s_meta.tables = SilverCsvNames
        /\ \A f \in SilverCsvNames :
            \/ s_tables[f].status = "SUCCESS" /\ s_out[f].kind = "csv"
            \/ s_tables[f].status = "FAILED" /\ s_tables[f].error_type # None

\* C10: in the Silver layer a file whose read, transformation or write raises
\* does not stop the layer: when the layer ends every CSV file of the Bronze
\* data directory has been cleaned or recorded as failed, and the layer
\* metadata has been written. Stated for both Silver implementations.
C10_BadFileIsolated ==
    /\ SilverMainIsolatesBadFile
    /\ l_pc \in {"returned", "raised"} =>
        /\ l_pc = "returned"
        /\ \A f \in LayerCsvNames :
              LayerSourceOf(f).kind = "csv" => f \in DOMAIN l_out /\ l_out[f].kind = "csv"


(***************************************************************************)
(* Claims about run identifiers (checked under SpecRunId and Spec)         *)
(***************************************************************************)
\* C6: the suffix of a run id is stable along the lineage: the Silver run id
\* carries the suffix of the Bronze run id it was derived from, and the Gold
\* run id of a build carries the suffix of the Silver run the build reads,
\* whether the Gold run id was derived or supplied.
C6_SuffixStable ==
    /\ s_run_id # NoRunId => RunIdSuffix(s_run_id) = RunIdSuffix(s_bronze_run_id)
    /\ (g_pc = "build" /\ RunIdReMatch(g_silver_run_id)) =>
            /\ RunIdReMatch(gold_run_id)
            /\ RunIdSuffix(gold_run_id) = RunIdSuffix(g_silver_run_id)

\* C7: every run id that is generated or derived matches RUN_ID_RE: the one
\* run_pipeline generates when it is given none, the Silver run id derived
\* from Bronze, and the Gold run id derived from Silver.
C7_RunIdsMatchPattern ==
    /\ (o_pc # "idle" /\ o_arg = NoRunId) => RunIdReMatch(run_id)
    /\ s_run_id # NoRunId => RunIdReMatch(s_run_id)
    /\ (g_pc = "build" /\ run_id_source = "generated") => RunIdReMatch(gold_run_id)

SubstitutionNotes == {i \in DOMAIN g_notes : g_notes[i] = SubstitutionNote(g_requested)}

\* C8: in the Gold runner a requested run id that does not match the pattern
\* does not abort the run: the Gold run id is derived from the Silver run id
\* and exactly one note records the substitution; a requested id that matches
\* is used unchanged, without such a note; with no requested id the id is
\* derived without a note; and the run is aborted with ValueError exactly
\* when the Silver run id does not match and no matching id was requested.
C8_RequestedIdFallback ==
    /\ (g_pc = "build" /\ Truthy(g_requested) /\ ~RunIdReMatch(g_requested)) =>
            /\ gold_run_id = DeriveRunId(g_silver_run_id, g_start)
            /\ run_id_source = "generated"
            /\ Cardinality(SubstitutionNotes) = 1
    /\ (g_pc = "build" /\ RunIdReMatch(g_requested)) =>
            /\ gold_run_id = g_requested
            /\ run_id_source = "provided"
            /\ g_notes = <<>>
    /\ (g_pc = "build" /\ ~Truthy(g_requested)) =>
            /\ gold_run_id = DeriveRunId(g_silver_run_id, g_start)
            /\ run_id_source = "generated"
            /\ g_notes = <<>>
    /\ g_pc = "build" => RunIdReMatch(g_silver_run_id) \/ RunIdReMatch(g_requested)
    /\ (g_pc = "raised" /\ g_error = "ValueError") =>
            ~RunIdReMatch(g_silver_run_id) /\ ~RunIdReMatch(g_requested)

\* a build that was asked for the id "myrun" and runs under a derived id
C8_Witness ==
    /\ g_pc = "build"
    /\ g_requested = <<"m", "y", "r", "u", "n">>
    /\ RunIdReMatch(gold_run_id)
    /\ RunIdSuffix(gold_run_id) = RunIdSuffix(g_silver_run_id)
    /\ Len(g_notes) = 1


(***************************************************************************)
(* Claims about the Gold build (checked under SpecGold)                    *)
(***************************************************************************)
TablesLoaded == DOMAIN g_tables = GoldFileNames

MissingTables == GoldFileNames \ Loaded(g_tables)

IsUnhandled(e) == e[1] = "UNHANDLED gold build failure"

OutputNames == {g_outputs[i].name : i \in DOMAIN g_outputs}

\* every table a mart is computed from, the optional ones included
MartSources(k) ==
    CASE k = 1 -> {"cst_info.csv", "CST_AZ12.csv", "LOC_A101.csv"}
      [] k = 2 -> {"prd_info.csv", "PX_CAT_G1V2.csv"}
      [] k = 3 -> {"LOC_A101.csv"}
      [] k = 4 -> {"sales_details.csv"}
      [] k = 5 -> {"sales_details.csv", "cst_info.csv", "CST_AZ12.csv", "LOC_A101.csv"}
      [] k = 6 -> {"sales_details.csv", "prd_info.csv", "PX_CAT_G1V2.csv"}
      [] k = 7 -> {"sales_details.csv", "LOC_A101.csv", "prd_info.csv", "PX_CAT_G1V2.csv"}
      [] k = 8 -> GoldFileNames

\* C11: when exactly one file of REQUIRED_SCHEMAS is missing from the Silver
\* data directory (and nothing raises), every mart that is not computed from
\* it is written, errors holds exactly one entry, naming the file, and the
\* status is partial.
C11_MissingTableOneError ==
    \A t \in GoldFileNames :
        ( /\ g_pc = "returned"
          /\ TablesLoaded
          /\ MissingTables = {t}
          /\ \A i \in DOMAIN g_errors : ~IsUnhandled(g_errors[i]) ) =>
            /\ \A k \in DOMAIN MARTS : t \notin MartSources(k) => MARTS[k] \in OutputNames
            /\ Len(g_errors) = 1
            /\ g_errors[1][2] = t
            /\ g_meta[Len(g_meta)].status = "partial"

\* C12: the recorded status is success exactly when errors is empty and
\* partial otherwise, never anything else; and a build that writes no mart
\* (nothing having raised) records partial with errors naming every missing
\* source table.
C12_StatusFromErrors ==
    /\ \A i \in DOMAIN g_meta :
            /\ g_meta[i].status \in {"success", "partial"}
            /\ g_meta[i].status = "success" <=> g_meta[i].errors = <<>>
    /\ ( /\ g_pc = "returned"
         /\ TablesLoaded
         /\ g_outputs = <<>>
         /\ \A i \in DOMAIN g_errors : ~IsUnhandled(g_errors[i]) ) =>
            /\ g_meta[Len(g_meta)].status = "partial"
            /\ \A t \in MissingTables : \E i \in DOMAIN g_errors : g_errors[i][2] = t

\* C13: a table that lacks a required column stops only the marts that need
\* it: every mart whose tables are present and all pass validation is built
\* and written (when no mart block raises).
C13_InvalidTableLocal ==
    ( /\ g_pc = "returned"
      /\ TablesLoaded
      /\ \A i \in DOMAIN g_errors :
            IsUnhandled(g_errors[i]) => g_errors[i][3] \in GoldFileNames ) =>
        \A k \in DOMAIN MARTS :
            ( /\ MartNeeds(k) \subseteq Loaded(g_tables)
              /\ \A n \in MartSources(k) \cap Loaded(g_tables) :
                    MissingColumns(g_tables[n], REQUIRED_SCHEMAS[n]) = <<>> )
            => MARTS[k] \in OutputNames

Unhandled == {i \in DOMAIN g_errors : IsUnhandled(g_errors[i])}

\* the marts whose block ran to its end before block k
CompletedBefore(k) == {MARTS[j] : j \in {j \in 1..(k - 1) : MartNeeds(j) \subseteq Loaded(g_tables)}}

MartCells(mart, col) == ColCells(gold_data[mart], col)

\* C15: every row of gold_fact_sales carries a customer key that is missing
\* or is the key of a row of gold_dim_customer, and a product key that is
\* missing or is the key of a row of gold_dim_product.
C15_FactKeysResolve ==
    /\ {"gold_fact_sales", "gold_dim_customer"} \subseteq DOMAIN gold_data =>
            \A c \in MartCells("gold_fact_sales", "sls_cust_id") :
                ToNumericCell(c) = NA \/ ToNumericCell(c) \in MartCells("gold_dim_customer", "cst_id")
    /\ {"gold_fact_sales", "gold_dim_product"} \subseteq DOMAIN gold_data =>
            \A c \in MartCells("gold_fact_sales", "sls_prd_key") :
                c = NA \/ c \in MartCells("gold_dim_product", "prd_key")

\* the first and last names held by the Silver customer table that was loaded
NameValues ==
    IF TablesLoaded /\ g_tables["cst_info.csv"] # NoFrame
    THEN {c \in ColCells(g_tables["cst_info.csv"], "cst_firstname")
                \cup ColCells(g_tables["cst_info.csv"], "cst_lastname") : c # NA}
    ELSE {}

\* C16: no mart that was written has a first-name or last-name column, and no
\* cell of a mart holds a first or last name of the Silver customer table.
C16_NoNamesInMarts ==
    /\ \A i \in DOMAIN g_outputs :
            \A c \in DOMAIN g_outputs[i].schema :
                g_outputs[i].schema[c] \notin {"cst_firstname", "cst_lastname"}
    /\ \A m \in DOMAIN gold_data :
            \A r \in DOMAIN gold_data[m].rows :
                \A c \in DOMAIN gold_data[m].rows[r] : gold_data[m].rows[r][c] \notin NameValues

(***************************************************************************)
(* Claims about Bronze ingestion (checked under SpecBronze)                *)
(***************************************************************************)
\* C18: run_bronze never fails on the content of a raw file, and when it
\* returns every CSV file of the raw directories is in the Bronze data
\* directory of the run, byte for byte, with the checksum of the copy
\* recorded.
C18_BronzeCopiesAnyContent ==
    /\ b_pc # "raised"
    /\ b_pc = "returned" =>
            /\ \A n \in RawCsv(b_raw.erp) :
                    /\ bronze_root[b_run_id][n] = b_raw.erp[n]
                    /\ b_erp_meta[n].checksum = Sha256(bronze_root[b_run_id][n])
            /\ \A n \in RawCsv(b_raw.crm) \ RawCsv(b_raw.erp) :
                    /\ bronze_root[b_run_id][n] = b_raw.crm[n]
                    /\ b_crm_meta[n].checksum = Sha256(bronze_root[b_run_id][n])

\* C19: a file of a run directory, once written, keeps its content: no step
\* of any later operation or run overwrites it.
C19_ArtifactsImmutable ==
    [][ /\ \A id \in DOMAIN bronze_root : \A n \in DOMAIN bronze_root[id] :
              /\ id \in DOMAIN bronze_root'
              /\ n \in DOMAIN bronze_root'[id]
              /\ bronze_root'[id][n] = bronze_root[id][n]
        /\ \A k \in DOMAIN b_files : k \in DOMAIN b_files' /\ b_files'[k] = b_files[k] ]_vars

(***************************************************************************)
(* Claims about concurrent runs (checked under SpecConc)                   *)
(***************************************************************************)
Started == {p \in Runs : c_pc[p] # "idle"}

\* C20: two distinct runs never work under the same run id, and no file
\* path is written by more than one run.
C20_RunsNeverShare ==
    /\ \A p, q \in Started : p # q => c_run_id[p] # c_run_id[q]
    /\ \A k \in DOMAIN c_paths : Cardinality(c_paths[k]) <= 1

(***************************************************************************)
(* Claims about artifact discovery (checked under SpecDash)                *)
(***************************************************************************)
\* the run folders of a layout that hold the Silver data folder
DataRuns(base) == {n \in DashNames : n \in DOMAIN base.entries /\ base.entries[n] = "data"}

ResultIds == {d_result[i].run_id : i \in DOMAIN d_result}

\* the listing returns exactly the runs of one layout, tagged with it, by
\* run id descending
ListsLayout(ids, layout) ==
    /\ ResultIds = ids
    /\ Len(d_result) = Cardinality(ids)
    /\ \A i \in DOMAIN d_result : d_result[i].layout = layout
    /\ \A i, j \in DOMAIN d_result : i < j => StrLess(d_result[j].run_id, d_result[i].run_id)

\* the first three sentences of C21
ListsPreferred ==
    /\ DataRuns(d_runs) # {} => ListsLayout(DataRuns(d_runs), "canonical")
    /\ DataRuns(d_runs) = {} => ListsLayout(DataRuns(d_silver), "legacy")

\* C21 as stated: canonical runs are listed when there are any, else the
\* legacy runs, else nothing, by run id descending; and every run of the
\* legacy layout is in the listing.
C21_DiscoveryAsStated ==
    d_pc = "listed" =>
        /\ ListsPreferred
        /\ DataRuns(d_silver) \subseteq ResultIds

\* C21 amended: canonical runs are listed when there are any, else the
\* legacy runs, else nothing, by run id descending; every run of the legacy
\* layout is in the listing whenever no canonical run exists.
C21_DiscoveryPrefersCanonical ==
    d_pc = "listed" =>
        /\ ListsPreferred
        /\ DataRuns(d_runs) = {} => DataRuns(d_silver) \subseteq ResultIds

\* two legacy runs are listed while artifacts/runs holds only a folder
\* without Silver data
C21_Witness ==
    /\ d_pc = "listed"
    /\ d_runs.exists /\ DOMAIN d_runs.entries # {} /\ DataRuns(d_runs) = {}
    /\ Cardinality(DataRuns(d_silver)) = 2
    /\ Len(d_result) = 2

(***************************************************************************)
(* Claims about the mart builders (checked under SpecMart)                 *)
(***************************************************************************)
\* total_sales, order_count and customer_count of the groups of the call
KpiGroups == ExecKpiAgg(k_in[1], k_in[2]).rows

NotFinite == {InfText, NegInfText, NanText}

\* the ratios of row g with their denominators: Customer Lifetime Value over
\* customer_count, Average Order Value over order_count
KpiRatios(g) == {<<k_out.rows[g][4], KpiGroups[g][5]>>, <<k_out.rows[g][6], KpiGroups[g][4]>>}

RowSet(rows) == {rows[i] : i \in DOMAIN rows}

\* (sls_ord_num, sls_prd_key) of a sales row
SalesKey(row) == <<row[1], row[2]>>

\* C23: build_gold_fact_sales returns one row for each distinct pair
\* (sls_ord_num, sls_prd_key) of its input, the first row with that pair in
\* source order; no two rows of the result share a pair and the result has
\* no more rows than the input.
C23_FactSalesFirstPerKey ==
    k_fn = "fact_sales" =>
        LET in == k_in[1].rows
            out == k_out.rows
        IN  /\ {SalesKey(r) : r \in RowSet(out)} = {SalesKey(r) : r \in RowSet(in)}
            /\ \A i, j \in DOMAIN out : SalesKey(out[i]) = SalesKey(out[j]) => i = j
            /\ \A i \in DOMAIN out : \E a \in DOMAIN in :
                    /\ out[i] = in[a]
                    /\ \A b \in 1..(a - 1) : SalesKey(in[b]) # SalesKey(in[a])
            /\ Len(out) <= Len(in)

\* two sales rows with the same pair and different amounts went in
C23_Witness ==
    /\ k_fn = "fact_sales"
    /\ \E a, b \in DOMAIN k_in[1].rows :
        /\ a < b
        /\ SalesKey(k_in[1].rows[a]) = SalesKey(k_in[1].rows[b])
        /\ k_in[1].rows[a] # k_in[1].rows[b]
    /\ Len(k_out.rows) = 1

\* the base table of a dimension call, its primary key as the builder reads
\* it, and the columns of the result that come from the base table
DimBase == k_in[1]

DimKey(row) ==
    CASE k_fn = "dim_customer" -> ToNumericCell(row[1])
      [] k_fn = "dim_product" -> AsStr(row[1])
      [] k_fn = "dim_location" -> AsStr(row[1])

\* the key of a row of the result
DimOutKey(row) == row[1]

\* the base columns other than the key, in a base row and in a result row
DimPayload(row) ==
    CASE k_fn = "dim_customer" -> SubSeq(row, 3, 7)
      [] k_fn = "dim_product" -> SubSeq(row, 2, 6)
      [] k_fn = "dim_location" -> SubSeq(row, 2, 2)

DimOutPayload(row) ==
    CASE k_fn = "dim_customer" -> SubSeq(row, 3, 7)
      [] k_fn = "dim_product" -> SubSeq(row, 3, 7)
      [] k_fn = "dim_location" -> SubSeq(row, 2, 2)

DimCalls == {"dim_customer", "dim_product", "dim_location"}

\* C24: each dimension builder returns one row per distinct primary key of
\* its base table, and of several base rows with one key it keeps the last.
C24_DimensionsLastWins ==
    k_fn \in DimCalls =>
        /\ {DimOutKey(r) : r \in RowSet(k_out.rows)} = {DimKey(r) : r \in RowSet(DimBase.rows)}
        /\ \A i, j \in DOMAIN k_out.rows :
                DimOutKey(k_out.rows[i]) = DimOutKey(k_out.rows[j]) => i = j
        /\ \A i \in DOMAIN k_out.rows : \E a \in DOMAIN DimBase.rows :
                /\ DimKey(DimBase.rows[a]) = DimOutKey(k_out.rows[i])
                /\ DimPayload(DimBase.rows[a]) = DimOutPayload(k_out.rows[i])
                /\ \A b \in (a + 1)..Len(DimBase.rows) :
                        DimKey(DimBase.rows[b]) # DimKey(DimBase.rows[a])

\* the key both sides of the enrichment joins are to be compared by:
\* hyphens stripped, upper case
NaturalKey(c) == Upper(NoDash(AsStr(c)))

\* C25: in the customer dimension a customer row carries the birth date and
\* gender of an enrichment row, and the country of a location row, whenever
\* one exists whose key equals the customer key once hyphens are stripped
\* and letters upper-cased; a customer without such a row is still present,
\* with missing enrichment values.
C25_EnrichmentByNormalisedKey ==
    (k_fn = "dim_customer" /\ k_in[2] # NoFrame) =>
        /\ {DimOutKey(r) : r \in RowSet(k_out.rows)} = {DimKey(r) : r \in RowSet(k_in[1].rows)}
        /\ \A i \in DOMAIN k_out.rows :
            LET key == NaturalKey(k_out.rows[i][2])
                az == {r \in RowSet(k_in[2].rows) : NaturalKey(r[1]) = key}
                loc == IF k_in[3] = NoFrame THEN {}
                       ELSE {r \in RowSet(k_in[3].rows) : NaturalKey(r[1]) = key}
            IN  /\ IF az = {} THEN k_out.rows[i][9] = NA /\ k_out.rows[i][10] = NA
                   ELSE \E r \in az : k_out.rows[i][9] = ToNumericCell(r[2])
                                      /\ k_out.rows[i][10] = AsStr(r[3])
                /\ IF loc = {} THEN k_out.rows[i][11] = NA
                   ELSE \E r \in loc : k_out.rows[i][11] = r[2]

\* C27: every row of the executive KPI aggregate has a customer segment that
\* is not missing: a marital status of the customer dimension, or "Unknown".
C27_SegmentNeverMissing ==
    k_fn = "exec_kpis" =>
        \A g \in DOMAIN k_out.rows :
            /\ k_out.rows[g][2] # NA
            /\ \/ k_out.rows[g][2] = SegmentCell(NA)
               \/ \E r \in RowSet(k_in[2].rows) : k_out.rows[g][2] = r[5]

(***************************************************************************)
(* Claims about the marts a build leaves out (checked under SpecGold)      *)
(***************************************************************************)
\* the mart of block k is listed in outputs and, where the frame is modelled,
\* its file is in the Gold data directory
MartDelivered(k) ==
    /\ MARTS[k] \in OutputNames
    /\ k \in RowMarts => MARTS[k] \in DOMAIN gold_data

\* an entry of errors that accounts for the absence of the mart of block k
AccountsFor(e, k) ==
    \/ IsUnhandled(e)
    \/ e[1] = "required" /\ e[2] \in MartNeeds(k) /\ e[2] \in MissingTables

\* C30: when main has returned, each of the eight marts is listed in outputs
\* with its file written, or errors holds an entry that names a missing
\* table the mart needs or records an unhandled build failure.
C30_NoMartAbsentUnexplained ==
    g_pc = "returned" =>
        \A k \in DOMAIN MARTS :
            \/ MartDelivered(k)
            \/ \E i \in DOMAIN g_errors : AccountsFor(g_errors[i], k)

\* main returned without an exception, an aggregate was passed over and
\* another mart was written
C30_Witness ==
    /\ g_pc = "returned"
    /\ Unhandled = {}
    /\ \E k \in 5..8 : ~MartDelivered(k)
    /\ \E k \in DOMAIN MARTS : MartDelivered(k)

(***************************************************************************)
(* Claims about checksums (checked under SpecHash and SpecBronze)          *)
(***************************************************************************)
\* C28: the digest sha256_file returns is the digest of the bytes of the
\* file, whatever read errors with_retry went through before.
C28_DigestOfFileBytes ==
    h_pc = "returned" => h_digest = HexDigest(h_file)

\* what bronze_metadata.yaml of the run says, and the data directory
BronzeMetaWritten == b_files[<<b_run_id, "bronze_metadata.yaml">>]

\* C29: when run_bronze returns, every file name recorded in the Bronze
\* metadata, under crm or under erp, has the checksum of the file of that
\* name in the Bronze data directory, and that file is a copy of the source
\* it is recorded for.
C29_MetadataMatchesData ==
    b_pc = "returned" =>
        \A src \in {"crm", "erp"} : \A n \in DOMAIN BronzeMetaWritten[src] :
            /\ n \in DOMAIN bronze_root[b_run_id]
            /\ BronzeMetaWritten[src][n].checksum = Sha256(bronze_root[b_run_id][n])
            /\ bronze_root[b_run_id][n] = b_raw[src][n]

(***************************************************************************)
(* Claims about the Silver transforms (checked under SpecSilver)           *)
(***************************************************************************)
\* the cells of a column of a written table
WrittenCells(file, col) ==
    {file.rows[r][c] : r \in DOMAIN file.rows, c \in {x \in DOMAIN file.header : file.header[x] = col}}

\* C26: the cst_gndr column of a customer table cleaned by upstream_silver
\* holds only M, F or a missing value.
C26_GenderOnlyMF ==
    \A f \in DOMAIN s_tables :
        (s_tables[f].status = "SUCCESS" /\ LowerName(f) = "cst_info.csv") =>
            WrittenCells(s_out[f], "cst_gndr") \subseteq {<<"M">>, <<"F">>, <<>>}
====
